---- MODULE Spec2Model ----
(***************************************************************************)
(* CustomerVision-Dashboard: the canonical detection model, the two vendor *)
(* response normalizers, the confidence filter, the tag colouring, the     *)
(* annotation of an image, the service factory and the two dashboards'     *)
(* detection runs, results panel and session.                              *)
(*                                                                         *)
(* Numbers: coordinates and confidences are floats in the program; here    *)
(* they are integers counting tenths (0.1 is 1, 1.0 is 10), which keeps    *)
(* comparison, subtraction and clamping exact.                             *)
(***************************************************************************)
EXTENDS Integers, Sequences, FiniteSets, TLC

VARIABLES
    result,         \* the DetectionResult the filter is called on
    filterCall,     \* the last get_high_confidence_detections call: its argument
    filtered,       \* the list that call returned
    azureCall,      \* the last Azure detect_objects call: transport outcome, response
    googleCall,     \* the last Google detect_objects call: image, transport, predictions
    outcome,        \* what the last detect_objects did: returned a result or raised
    boxCall,        \* the last _create_detection_from_box call: name, box, score
    boxRet,         \* what that call returned: a Detection or None
    hashOf,         \* the process's string hash, per tag (fixed at interpreter start)
    drawn,          \* the last draw_bounding_boxes call: detections and tag_colors
    keyed,          \* the last _show_color_key call: detections and the colors shown
    images,         \* the image objects: the caller's image and the annotator's copy
    drawEnv,        \* what draw_bounding_boxes finds: fonts, Pillow's strictness
    drawRet,        \* what the last draw_bounding_boxes call returned
    asDict,         \* what the last to_dict call returned
    run,            \* the dashboard's detection run: where it stands, what it wrote on the result
    batch,          \* the multi-service dashboard's detection run: its loop, results and errors
    threads,        \* two detection requests in flight: vendor, input, position, local names
    lists,          \* the detections lists the parser calls have created
    predictionClient,\* the Google service's _prediction_client: 0 (None) or who created it
    overlapped,     \* whether a request has moved while the other was under way
    tagGroups,      \* the results panel's grouping by tag: the filtered list and the tag_groups dict
    environ,        \* the environment variables Config reads, those that are set
    factoryServices,\* ServiceFactory._services: what get_service has cached under each name
    factoryLog,     \* the get_service calls so far: how many, what each name's first call returned, the last call
    session,        \* st.session_state of the single-service dashboard, with the number of the run that stored each value
    screen          \* what the last script run rendered in the results section

filterVars == <<result, filterCall, filtered>>
detectVars == <<azureCall, googleCall, outcome>>
boxVars    == <<boxCall, boxRet>>
colorVars  == <<hashOf, drawn, keyed>>
drawVars   == <<images, drawEnv, drawRet>>
dictVars   == <<asDict>>
runVars    == <<run>>
batchVars  == <<batch>>
concVars   == <<threads, lists, predictionClient, overlapped>>
groupVars  == <<tagGroups>>
factoryVars == <<environ, factoryServices, factoryLog>>
sessionVars == <<session, screen>>
vars       == <<filterVars, detectVars, boxVars, colorVars, drawVars, dictVars, runVars, batchVars, concVars, groupVars, factoryVars, sessionVars>>

\* what the operations of one component leave alone: every other component
notFilterVars == <<detectVars, boxVars, colorVars, drawVars, dictVars, runVars, batchVars, concVars, groupVars, factoryVars, sessionVars>>
notDetectVars == <<filterVars, boxVars, colorVars, drawVars, dictVars, runVars, batchVars, concVars, groupVars, factoryVars, sessionVars>>
notBoxVars    == <<filterVars, detectVars, colorVars, drawVars, dictVars, runVars, batchVars, concVars, groupVars, factoryVars, sessionVars>>
notColorVars  == <<filterCall, filtered, detectVars, boxVars, dictVars, runVars, batchVars, concVars, groupVars, factoryVars, sessionVars>>
notDictVars   == <<filterVars, detectVars, boxVars, colorVars, drawVars, runVars, batchVars, concVars, groupVars, factoryVars, sessionVars>>
notRunVars    == <<filterVars, detectVars, boxVars, colorVars, drawVars, dictVars, batchVars, concVars, groupVars, factoryVars, sessionVars>>
notBatchVars  == <<filterVars, detectVars, boxVars, colorVars, drawVars, dictVars, runVars, concVars, groupVars, factoryVars, sessionVars>>
notConcVars   == <<filterVars, detectVars, boxVars, colorVars, drawVars, dictVars, runVars, batchVars, groupVars, factoryVars, sessionVars>>
notGroupVars  == <<filterVars, detectVars, boxVars, colorVars, drawVars, dictVars, runVars, batchVars, concVars, factoryVars, sessionVars>>
notFactoryVars == <<filterVars, detectVars, boxVars, colorVars, drawVars, dictVars, runVars, batchVars, concVars, groupVars, sessionVars>>
notSessionVars == <<filterVars, detectVars, boxVars, colorVars, drawVars, dictVars, runVars, batchVars, concVars, groupVars, factoryVars>>

-----------------------------------------------------------------------------
(* Bounds of the model *)

MaxDetections == 3      \* longest detection list of a DetectionResult
MaxRecords    == 3      \* most prediction records in one vendor response
MaxTags       == 3      \* longest tag list handed to the colouring

-----------------------------------------------------------------------------
(* Sequences *)

RECURSIVE SeqsUpTo(_, _)
SeqsUpTo(S, n) ==
    IF n = 0 THEN {<<>>}
    ELSE LET shorter == SeqsUpTo(S, n - 1)
         IN  shorter \cup {Append(s, x) : s \in {t \in shorter : Len(t) = n - 1}, x \in S}

Max2(a, b) == IF a >= b THEN a ELSE b
Min2(a, b) == IF a <= b THEN a ELSE b

\* a is a subsequence of b: a is b with some elements left out
RECURSIVE IsSubseq(_, _)
IsSubseq(a, b) ==
    IF a = <<>> THEN TRUE
    ELSE IF b = <<>> THEN FALSE
    ELSE IF Head(a) = Head(b) THEN IsSubseq(Tail(a), Tail(b))
    ELSE IsSubseq(a, Tail(b))

-----------------------------------------------------------------------------
(* Canonical data model: detection_models.py *)

BoundingBox(l, t, w, h) == [left |-> l, top |-> t, width |-> w, height |-> h]

Detection(tag, conf, box) == [tag_name |-> tag, confidence |-> conf, bounding_box |-> box]

DetectionResult(name, dets, ptime, dims, thresh) ==
    [service_name |-> name, detections |-> dets, processing_time |-> ptime,
     image_dimensions |-> dims, confidence_threshold |-> thresh]

\* The threshold argument of get_high_confidence_detections: None or a float.
NoThreshold == [given |-> FALSE, value |-> 0]
Threshold(t) == [given |-> TRUE, value |-> t]

\* `threshold or self.confidence_threshold`: an explicit 0.0 falls to the default
EffectiveThresholdFalsy(r, arg) ==
    IF arg.given /\ arg.value # 0 THEN arg.value ELSE r.confidence_threshold

\* line 54: thresh = threshold if threshold is not None else self.confidence_threshold
EffectiveThreshold(r, arg) ==
    IF arg.given THEN arg.value ELSE r.confidence_threshold

\* keeps what lies at or below the threshold: `<=` for `>=`
KeepsBelow(d, thresh) == d.confidence <= thresh

\* line 55: the comprehension's condition, d.confidence >= thresh
Keeps(d, thresh) == d.confidence >= thresh

\* lines 52-55: DetectionResult.get_high_confidence_detections
GetHighConfidenceDetections(r, arg) ==
    LET thresh == EffectiveThreshold(r, arg)
        Test(d) == Keeps(d, thresh)
    IN  SelectSeq(r.detections, Test)

\* A Python dict: its keys in insertion order and the value under each key.
PyDict(keys, at) == [keys |-> keys, at |-> at]

\* width and height written under each other's key
BoundingBoxToDictSwapped(b) ==
    PyDict(<<"left", "top", "width", "height">>,
           [left |-> b.left, top |-> b.top, width |-> b.height, height |-> b.width])

\* lines 17-24: BoundingBox.to_dict
BoundingBoxToDict(b) ==
    PyDict(<<"left", "top", "width", "height">>,
           [left |-> b.left, top |-> b.top, width |-> b.width, height |-> b.height])

\* lines 34-40: Detection.to_dict
DetectionToDict(d) ==
    PyDict(<<"tag_name", "confidence", "bounding_box">>,
           [tag_name |-> d.tag_name, confidence |-> d.confidence,
            bounding_box |-> BoundingBoxToDict(d.bounding_box)])

\* lines 65-73: DetectionResult.to_dict
ResultToDict(r) ==
    PyDict(<<"service_name", "detections", "processing_time", "image_dimensions",
             "confidence_threshold">>,
           [service_name |-> r.service_name,
            detections |-> [i \in 1..Len(r.detections) |-> DetectionToDict(r.detections[i])],
            processing_time |-> r.processing_time,
            image_dimensions |-> r.image_dimensions,
            confidence_threshold |-> r.confidence_threshold])

NotSerialised == [called |-> FALSE, value |-> PyDict(<<>>, <<>>)]

-----------------------------------------------------------------------------
(* Wire values: what a vendor's JSON or protobuf payload can hold in a field *)

\* A field that should hold a number: missing, a number, null, or a numeric
\* string such as "0.4" (n is then the number the string spells).
Absent    == [kind |-> "absent", n |-> 0]
Num(n)    == [kind |-> "num", n |-> n]
Null      == [kind |-> "null", n |-> 0]
NumStr(n) == [kind |-> "numstr", n |-> n]

\* A field that should hold a label
NoLabel    == [kind |-> "absent", s |-> ""]
NullLabel  == [kind |-> "null", s |-> ""]
Label(s)   == [kind |-> "str", s |-> s]

\* Python's None stored as a tag_name
NoneTag == "<None>"

\* float(x) followed by a clamp to [0, 1]
FloatClamped(x) == IF x.n < 0 THEN 0 ELSE IF x.n > 10 THEN 10 ELSE x.n

\* float(x): defined for numbers and numeric strings, raises on None
FloatRaises(x) == x.kind = "null"
Float(x) == x.n

\* format(x, ".3f"): defined for numbers only, raises on None and on any string
FormatRaises(x) == x.kind \in {"null", "numstr"}

-----------------------------------------------------------------------------
(* Azure Custom Vision: azure_service.py *)

\* A prediction record's boundingBox: missing, null, {}, a mapping, or some
\* other non-empty JSON value (a list)
WireBox(k, l, t, w, h) == [kind |-> k, left |-> l, top |-> t, width |-> w, height |-> h]
BoxAbsent == WireBox("absent", Absent, Absent, Absent, Absent)
BoxNull   == WireBox("null", Absent, Absent, Absent, Absent)
BoxEmpty  == WireBox("empty", Absent, Absent, Absent, Absent)
BoxList   == WireBox("list", Absent, Absent, Absent, Absent)
BoxDict(l, t, w, h) == WireBox("dict", l, t, w, h)

AzureRecord(box, tag, prob) ==
    [isDict |-> TRUE, boundingBox |-> box, tagName |-> tag, probability |-> prob]
\* a record that is no mapping (a JSON null or number in the predictions list)
AzureNotADict ==
    [isDict |-> FALSE, boundingBox |-> BoxAbsent, tagName |-> NoLabel, probability |-> Absent]

\* dict.get(key, default) on a numeric field: the default only when the key is missing
GetNum(x, default) == IF x.kind = "absent" THEN Num(default) ELSE x

\* line 87: prediction.get('tagName', 'Unknown')
AzureTagName(rec) ==
    CASE rec.tagName.kind = "absent" -> "Unknown"
      [] rec.tagName.kind = "null"   -> NoneTag
      [] OTHER                       -> rec.tagName.s

\* line 93: `if not bbox_data` is true of a missing, null or empty boundingBox
AzureBoxFalsy(box) == box.kind \in {"absent", "null", "empty"}

\* the check without the height test
AzureInvalidDimsWidthOnly(bb) == bb.width <= 0

\* line 105: bounding_box.width <= 0 or bounding_box.height <= 0
AzureInvalidDims(bb) == bb.width <= 0 \/ bb.height <= 0

\* lines 83-120, one iteration of the loop: the detections it appends (none or
\* one).  An exception anywhere in the body is caught at line 118 and the
\* iteration ends without appending.
AzureParseRecord(rec) ==
    IF ~rec.isDict THEN <<>>                               \* .get on a non-mapping
    ELSE
    LET bbox_data  == rec.boundingBox
        tag_name   == AzureTagName(rec)
        confidence == GetNum(rec.probability, 0)
        l == GetNum(bbox_data.left, 0)
        t == GetNum(bbox_data.top, 0)
        w == GetNum(bbox_data.width, 0)
        h == GetNum(bbox_data.height, 0)
    IN  IF FormatRaises(confidence) THEN <<>>              \* line 90: {confidence:.3f}
        ELSE IF AzureBoxFalsy(bbox_data) THEN <<>>         \* line 93-95
        ELSE IF bbox_data.kind # "dict" THEN <<>>          \* line 98: .get on a non-mapping
        ELSE IF FloatRaises(l) \/ FloatRaises(t) \/ FloatRaises(w) \/ FloatRaises(h)
             THEN <<>>                                     \* lines 98-101: float(None)
        ELSE LET bounding_box == BoundingBox(Float(l), Float(t), Float(w), Float(h))
             IN  IF AzureInvalidDims(bounding_box) THEN <<>>    \* line 105-107
                 ELSE <<Detection(tag_name, confidence.n, bounding_box)>>

\* the loop that stops at the first record it cannot use
RECURSIVE AzureParseLoopAborting(_)
AzureParseLoopAborting(records) ==
    IF records = <<>> THEN <<>>
    ELSE IF AzureParseRecord(Head(records)) = <<>> THEN <<>>
    ELSE AzureParseRecord(Head(records)) \o AzureParseLoopAborting(Tail(records))

\* lines 82-120: the loop over the prediction records
RECURSIVE AzureParseLoop(_)
AzureParseLoop(records) ==
    IF records = <<>> THEN <<>>
    ELSE AzureParseRecord(Head(records)) \o AzureParseLoop(Tail(records))

\* The response body: a JSON object (with 'predictions' missing, null or a
\* list of records) or some other JSON value.
AzureResponse(shape, k, items) ==
    [shape |-> shape, predictions |-> [kind |-> k, items |-> items]]

\* What a parser hands back: a list, or an exception that leaves it
Returned(dets) == [raised |-> FALSE, detections |-> dets]
Raised == [raised |-> TRUE, detections |-> <<>>]

\* lines 73-123: AzureCustomVisionService._parse_azure_response
ParseAzureResponse(response_data) ==
    IF response_data.shape # "dict" THEN Raised                \* line 79: .get on a non-dict
    ELSE IF response_data.predictions.kind = "null" THEN Raised  \* line 80: len(None)
    ELSE IF response_data.predictions.kind = "absent" THEN Returned(<<>>)
    ELSE Returned(AzureParseLoop(response_data.predictions.items))

-----------------------------------------------------------------------------
(* Google AutoML (Vertex AI): google_service.py *)

\* 1.0 in tenths: the upper clamp of a coordinate
One == 10

\* A box as it arrives: a list of coordinates, or null
CoordList(coords) == [kind |-> "list", coords |-> coords]
NullBox == [kind |-> "null", coords |-> <<>>]

\* One entry of a prediction's parallel lists, as the zip at line 129/160 pairs them
GoogleRecord(name, box, score) == [name |-> name, box |-> box, score |-> score]

\* A field of a prediction: missing, null, or a list
FieldAbsent == [kind |-> "absent", items |-> <<>>]
FieldNull   == [kind |-> "null", items |-> <<>>]
FieldList(items) == [kind |-> "list", items |-> items]

\* A prediction: a proto-plus object carrying _pb ("pb"), a mapping ("dict"),
\* or a value that no branch of lines 143-148 turns into a dict ("bad").
\* displayName, score and vertices are the keys of a vertex-based result.
Prediction(format, names, boxes, confs, scores) ==
    [format |-> format, displayNames |-> names, bboxes |-> boxes,
     confidences |-> confs, scores |-> scores,
     displayName |-> NoLabel, score |-> Absent, vertices |-> FieldAbsent]
VertexResult(name, score, vertices) ==
    [format |-> "dict", displayNames |-> FieldAbsent, bboxes |-> FieldAbsent,
     confidences |-> FieldAbsent, scores |-> FieldAbsent,
     displayName |-> Label(name), score |-> Num(score), vertices |-> FieldList(vertices)]
BadPrediction == Prediction("bad", FieldAbsent, FieldAbsent, FieldAbsent, FieldAbsent)

\* lines 226-229: max(0.0, min(1.0, float(v)))
Clamp(v) == Max2(0, Min2(One, v))

\* the box read as (xmin, ymin, xmax, ymax)
BoxCornersXYXY(box) ==
    [xmin |-> box[1], ymin |-> box[2], xmax |-> box[3], ymax |-> box[4]]

\* line 223: xmin, xmax, ymin, ymax = box[:4]
BoxCorners(box) ==
    [xmin |-> box[1], xmax |-> box[2], ymin |-> box[3], ymax |-> box[4]]

\* line 236: width > 0 and height > 0
ValidDims(width, height) == width > 0 /\ height > 0

\* lines 218-260: GoogleAutoMLService._create_detection_from_box.  The result is
\* <<>> for None and <<d>> for a Detection d; every exception inside is caught
\* at line 257 and ends in `return None`.
CreateDetectionFromBox(name, box, score) ==
    IF box.kind # "list" THEN <<>>                          \* line 221: len(None)
    ELSE IF Len(box.coords) < 4 THEN <<>>                   \* line 254-255
    ELSE
    LET c == BoxCorners(box.coords)
    IN  IF FloatRaises(c.xmin) \/ FloatRaises(c.ymin) \/ FloatRaises(c.xmax)
           \/ FloatRaises(c.ymax)
        THEN <<>>                                           \* lines 226-229: float(None)
        ELSE
        LET xmin == Clamp(Float(c.xmin))
            ymin == Clamp(Float(c.ymin))
            xmax == Clamp(Float(c.xmax))
            ymax == Clamp(Float(c.ymax))
            width  == xmax - xmin
            height == ymax - ymin
        IN  IF ~ValidDims(width, height) THEN <<>>          \* line 252-253
            ELSE IF FloatRaises(score) THEN <<>>            \* line 246: float(None)
            ELSE IF FormatRaises(score) THEN <<>>           \* line 250: {score:.3f}
            ELSE <<Detection(name, Float(score), BoundingBox(xmin, ymin, width, height))>>

\* zip(names, boxes, scores): as long as the shortest of the three
ZipLen(names, boxes, scores) == Min2(Len(names), Min2(Len(boxes), Len(scores)))

\* lines 129-139 and 160-166: the loop over the zipped lists
RECURSIVE CreateAll(_, _, _, _)
CreateAll(names, boxes, scores, k) ==
    IF k > ZipLen(names, boxes, scores) THEN <<>>
    ELSE CreateDetectionFromBox(names[k], boxes[k], scores[k])
             \o CreateAll(names, boxes, scores, k + 1)

\* value.number_value of a protobuf Value: the number it holds, 0.0 when it
\* holds anything else (hasattr(value, 'number_value') is true of every Value,
\* so lines 187-188 take this branch for each element)
NumberValue(v) == IF v.kind = "num" THEN Num(v.n) ELSE Num(0)

\* str() of the 0.0 that number_value gives for a string Value
ZeroName == "0.0"

\* lines 177-216: _extract_list_values on a field of numbers
ExtractNumbers(field) ==
    IF field.kind # "list" THEN <<>>
    ELSE [i \in 1..Len(field.items) |-> NumberValue(field.items[i])]

\* lines 177-216: _extract_list_values on the displayNames field
ExtractNames(field) ==
    IF field.kind # "list" THEN <<>>
    ELSE [i \in 1..Len(field.items) |-> ZeroName]

\* lines 117-123: each element of bboxes becomes the list of its numbers
ExtractBoxes(field) ==
    IF field.kind # "list" THEN <<>>
    ELSE [i \in 1..Len(field.items) |->
            IF field.items[i].kind # "list" THEN CoordList(<<>>)
            ELSE CoordList([j \in 1..Len(field.items[i].coords) |->
                               NumberValue(field.items[i].coords[j])])]

\* lines 105-139: a prediction that carries _pb
ParsePbPrediction(prediction) ==
    LET confidences   == ExtractNumbers(prediction.confidences)
        display_names == ExtractNames(prediction.displayNames)
        bboxes_raw    == ExtractBoxes(prediction.bboxes)
    IN  CreateAll(display_names, bboxes_raw, confidences, 1)

\* line 156: pred_dict.get("confidences", pred_dict.get("scores", []))
DictScores(pred_dict) ==
    IF pred_dict.confidences.kind # "absent" THEN pred_dict.confidences
    ELSE IF pred_dict.scores.kind # "absent" THEN pred_dict.scores
    ELSE FieldList(<<>>)

\* lines 141-168: a prediction handled as a dict
ParseDictPrediction(pred_dict) ==
    IF pred_dict.displayNames.kind = "absent" \/ pred_dict.bboxes.kind = "absent"
    THEN <<>>                                               \* line 168: unknown format
    ELSE
    LET names  == pred_dict.displayNames
        boxes  == pred_dict.bboxes
        scores == DictScores(pred_dict)
    IN  IF names.kind = "null" \/ boxes.kind = "null" \/ scores.kind = "null"
        THEN <<>>                                           \* line 158: len(None), caught at 170
        ELSE CreateAll(names.items, boxes.items, scores.items, 1)

\* lines 100-172, one iteration of the loop over the predictions
ParsePrediction(prediction) ==
    CASE prediction.format = "pb"   -> ParsePbPrediction(prediction)
      [] prediction.format = "dict" -> ParseDictPrediction(prediction)
      [] OTHER                      -> <<>>                 \* line 148 raises, caught at 170

\* lines 100-172: the loop over the predictions
RECURSIVE ParsePredictions(_)
ParsePredictions(predictions) ==
    IF predictions = <<>> THEN <<>>
    ELSE ParsePrediction(Head(predictions)) \o ParsePredictions(Tail(predictions))

\* lines 90-175: GoogleAutoMLService._parse_response.  predictions is a field:
\* None, or a list (an empty one is falsy as well, line 94).
ParseResponse(predictions) ==
    IF predictions.kind # "list" THEN Returned(<<>>)
    ELSE Returned(ParsePredictions(predictions.items))

-----------------------------------------------------------------------------
(* detect_objects of the two services *)

AzureName  == "Azure Custom Vision"
GoogleName == "Google AutoML"

NoResult == DetectionResult("", <<>>, 0, <<0, 0>>, 0)
NoOutcome == [kind |-> "none", result |-> NoResult]
RaisedOutcome == [kind |-> "raised", result |-> NoResult]
ResultOutcome(r) == [kind |-> "result", result |-> r]

\* azure_service.py lines 125-127, google_service.py lines 262-263
GetServiceName(vendor) == IF vendor = "azure" THEN AzureName ELSE GoogleName

\* azure_service.py lines 22-71: AzureCustomVisionService.detect_objects.
\* call.failure = "transport": requests.post, raise_for_status or json() raised.
\* call.start, call.answered, call.parsed: what time.time() reads at line 24,
\* when the response is in (line 46) and when the parser has returned.
AzureOutcome(call) ==
    IF call.failure # "none" THEN RaisedOutcome                 \* lines 66-68
    ELSE
    LET parsed == ParseAzureResponse(call.response)             \* line 49
    IN  IF parsed.raised THEN RaisedOutcome                     \* lines 69-71
        ELSE ResultOutcome(DetectionResult(AzureName, parsed.detections,
                               call.answered - call.start,      \* line 46
                               <<0, 0>>,                        \* line 53
                               call.confidence_threshold))

\* google_service.py lines 37-88: GoogleAutoMLService.detect_objects.
\* call.failure: "image" (Image.open raised, line 43), "credentials" (line 34),
\* "predict" (client.predict raised, line 64); each ends at lines 86-88.
GoogleOutcome(call) ==
    IF call.failure # "none" THEN RaisedOutcome
    ELSE
    LET parsed == ParseResponse(call.predictions)               \* line 74
    IN  ResultOutcome(DetectionResult(GoogleName, parsed.detections,
                          call.answered - call.start,           \* line 69
                          call.imageSize,                       \* line 81
                          call.confidence_threshold))

-----------------------------------------------------------------------------
(* Tag colours: image_processor.py and the dashboard's colour key *)

\* image_processor.py lines 20-23: self.colors
Colors == <<"#FF6B6B", "#4ECDC4", "#45B7D1", "#96CEB4", "#FFEAA7",
            "#DDA0DD", "#98D8C8", "#F7DC6F", "#BB8FCE", "#85C1E9">>

\* set(): CPython's hash table of a small set has 8 slots, and list(set) reads
\* the slots in index order.
SetSlots == 8
EmptySlot == ""
EmptySet == [i \in 0..(SetSlots - 1) |-> EmptySlot]

\* set.add: the slot is the hash modulo the table size; a taken slot sends the
\* probe to (5*i + 1 + perturb) mod size, perturb being the hash shifted right
\* by 5 bits at each step.
RECURSIVE SetAddAt(_, _, _, _)
SetAddAt(table, tag, i, perturb) ==
    IF table[i] = EmptySlot THEN [table EXCEPT ![i] = tag]
    ELSE IF table[i] = tag THEN table
    ELSE SetAddAt(table, tag, (5 * i + 1 + (perturb \div 32)) % SetSlots, perturb \div 32)

SetAdd(table, tag, hash) == SetAddAt(table, tag, hash[tag] % SetSlots, hash[tag])

\* set(d.tag_name for d in detections): the tags are added in list order
RECURSIVE SetOfTags(_, _, _)
SetOfTags(table, detections, hash) ==
    IF detections = <<>> THEN table
    ELSE SetOfTags(SetAdd(table, Head(detections).tag_name, hash), Tail(detections), hash)

\* list(s): the occupied slots, in slot order
RECURSIVE SlotsToList(_, _)
SlotsToList(table, i) ==
    IF i = SetSlots THEN <<>>
    ELSE (IF table[i] = EmptySlot THEN <<>> ELSE <<table[i]>>) \o SlotsToList(table, i + 1)

\* image_processor.py line 44 (and main_backup.py line 406):
\* unique_tags = list(set(d.tag_name for d in filtered_detections))
UniqueTags(detections, hash) == SlotsToList(SetOfTags(EmptySet, detections, hash), 0)

\* the enumeration index counted from 1: tag i gets colors[(i + 1) % len(colors)]
TagColorsShifted(unique_tags) ==
    [tag \in {unique_tags[i] : i \in 1..Len(unique_tags)} |->
        LET i == CHOOSE k \in 1..Len(unique_tags) : unique_tags[k] = tag
        IN  Colors[(i % Len(Colors)) + 1]]

\* image_processor.py lines 45-47 (and main_backup.py lines 411-412):
\* tag i of the enumeration gets colors[i % len(colors)]
TagColors(unique_tags) ==
    [tag \in {unique_tags[i] : i \in 1..Len(unique_tags)} |->
        LET i == CHOOSE k \in 1..Len(unique_tags) : unique_tags[k] = tag
        IN  Colors[((i - 1) % Len(Colors)) + 1]]

\* image_processor.py lines 40-47: the filtering and colouring of draw_bounding_boxes
DrawColors(r, threshold, hash) ==
    LET filtered_detections == GetHighConfidenceDetections(r, Threshold(threshold))
        unique_tags == UniqueTags(filtered_detections, hash)
    IN  [called |-> TRUE, threshold |-> threshold, unique_tags |-> unique_tags,
         tag_colors |-> TagColors(unique_tags)]

\* main_backup.py lines 403-413: ObjectDetectionDashboard._show_color_key
ShowColorKey(r, threshold, hash) ==
    LET filtered_detections == GetHighConfidenceDetections(r, Threshold(threshold))
        unique_tags == UniqueTags(filtered_detections, hash)
    IN  [called |-> TRUE, threshold |-> threshold, unique_tags |-> unique_tags,
         tag_colors |-> TagColors(unique_tags)]

NotColoured == [called |-> FALSE, threshold |-> 0, unique_tags |-> <<>>,
                tag_colors |-> TagColors(<<>>)]

-----------------------------------------------------------------------------
(* Annotation: ImageProcessor.draw_bounding_boxes, image_processor.py *)

\* A PIL image object: its size and what has been painted on its pixels since
\* it was decoded. Two images of one size with the same paint are pixel-identical.
NoImage == [exists |-> FALSE, size |-> <<0, 0>>, painted |-> <<>>]
LoadedImage(size) == [exists |-> TRUE, size |-> size, painted |-> <<>>]

\* The image objects of one call: the caller's object ("source") and the one
\* the call may create ("copy").
HeapOf(image) == [source |-> image, copy |-> NoImage]

\* image_copy bound to the caller's object: no copy is made
ImageCopyAlias(heap) == [heap |-> heap, ref |-> "source"]

\* line 34: image_copy = image.copy(), a new object with the same pixels
ImageCopy(heap) == [heap |-> [heap EXCEPT !.copy = heap.source], ref |-> "copy"]

\* the object handed back when the pipeline failed: the partly painted copy
ReturnCopyOnFailure == "image_copy"

\* line 95: return image
ReturnOnFailure == "image"

\* line 91: return image_copy
ReturnOnSuccess == "image_copy"

\* int(x) of a float: the fraction is cut off, towards zero
TruncDiv(a, b) == IF a >= 0 THEN a \div b ELSE -((-a) \div b)

\* lines 63-66: int(coordinate * extent), the coordinate counted in tenths
Pixel(coord, extent) == TruncDiv(coord * extent, One)

\* the label row without the clamp
TextYUnclamped(top, text_height) == top - text_height - 2

\* line 81: text_y = max(0, top - text_height - 2)
TextY(top, text_height) == Max2(0, top - text_height - 2)

\* line 72: label = f"{detection.tag_name}"
LabelOf(tag) == IF tag = NoneTag THEN "None" ELSE tag

\* the three drawing calls of one detection
RectangleOp(xy, color) == [op |-> "rectangle", xy |-> xy, color |-> color, text |-> ""]
PanelOp(xy, color) == [op |-> "panel", xy |-> xy, color |-> color, text |-> ""]
TextOp(xy, label) == [op |-> "text", xy |-> xy, color |-> "white", text |-> label]

\* no filtering: every detection of the result is drawn
DrawFilterNone(r, threshold) == r.detections

\* the stored threshold instead of the argument
DrawFilterStored(r, threshold) == GetHighConfidenceDetections(r, NoThreshold)

\* line 41: detection_result.get_high_confidence_detections(confidence_threshold)
DrawFilter(r, threshold) == GetHighConfidenceDetections(r, Threshold(threshold))

\* lines 59-88: the body of the loop for one detection. env.strict: this Pillow
\* refuses a rectangle whose second corner lies before its first (ValueError);
\* env.fault = "text": the loaded font cannot measure the label (line 75).
\* painted: what reached the canvas before the body ended or raised.
DrawDetection(detection, size, tag_colors, env) ==
    LET bbox == detection.bounding_box
        color == tag_colors[detection.tag_name]                         \* line 60
        left == Pixel(bbox.left, size[1])                               \* line 63
        top == Pixel(bbox.top, size[2])                                 \* line 64
        right == Pixel(bbox.left + bbox.width, size[1])                 \* line 65
        bottom == Pixel(bbox.top + bbox.height, size[2])                \* line 66
        label == LabelOf(detection.tag_name)                            \* line 72
        text_width == env.char_width * Len(label)                       \* line 76
        text_height == env.text_height                                  \* line 77
        text_x == left                                                  \* line 80
        text_y == TextY(top, text_height)                               \* line 81
        background_coords == <<text_x - 1, text_y - 1,
                               text_x + text_width + 2, text_y + text_height + 1>>
        outline == RectangleOp(<<left, top, right, bottom>>, color)     \* line 69
    IN  IF env.strict /\ (right < left \/ bottom < top)
        THEN [raised |-> TRUE, painted |-> <<>>]
        ELSE IF env.fault = "text"
        THEN [raised |-> TRUE, painted |-> <<outline>>]
        ELSE [raised |-> FALSE,
              painted |-> <<outline,
                            PanelOp(background_coords, color \o "CC"), \* lines 84-85
                            TextOp(<<text_x, text_y>>, label)>>]        \* line 88

\* lines 58-88: the loop; it ends at the first detection whose body raises
RECURSIVE DrawLoop(_, _, _, _)
DrawLoop(detections, size, tag_colors, env) ==
    IF detections = <<>> THEN [raised |-> FALSE, painted |-> <<>>]
    ELSE LET one == DrawDetection(Head(detections), size, tag_colors, env)
         IN  IF one.raised THEN one
             ELSE LET rest == DrawLoop(Tail(detections), size, tag_colors, env)
                  IN  [raised |-> rest.raised, painted |-> one.painted \o rest.painted]

\* What one call did: the image objects afterwards, the object the returned
\* local names (image is the caller's object, image_copy what line 34 bound;
\* returning an unbound local raises), whether the pipeline failed inside, and
\* whether the call raised to its caller.
DrawReturn(heap, local, copyRef, failed) ==
    LET ref == IF local = "image" THEN "source" ELSE copyRef
    IN  [heap |-> heap, ref |-> ref, failed |-> failed, raised |-> (ref = "")]

Paint(heap, ref, ops) == [heap EXCEPT ![ref].painted = @ \o ops]

\* lines 25-95: ImageProcessor.draw_bounding_boxes(image, detection_result,
\* confidence_threshold). env.fault = "copy": image.copy() raises (line 34);
\* "font": neither truetype font nor the default font loads (lines 50-56).
DrawBoundingBoxesCall(heap, r, threshold, hash, env) ==
    IF env.fault = "copy" THEN DrawReturn(heap, ReturnOnFailure, "", TRUE)
    ELSE
    LET copied == ImageCopy(heap)                                       \* lines 34-35
        size == heap.source.size                                        \* line 38
        filtered_detections == DrawFilter(r, threshold)                 \* line 41
        tag_colors == TagColors(UniqueTags(filtered_detections, hash))  \* lines 44-47
        looped == DrawLoop(filtered_detections, size, tag_colors, env)  \* lines 58-88
        painted == Paint(copied.heap, copied.ref, looped.painted)
    IN  IF env.fault = "font" THEN DrawReturn(copied.heap, ReturnOnFailure, copied.ref, TRUE)
        ELSE IF looped.raised THEN DrawReturn(painted, ReturnOnFailure, copied.ref, TRUE)
        ELSE DrawReturn(painted, ReturnOnSuccess, copied.ref, FALSE)

NotDrawn == [called |-> FALSE, ref |-> "", failed |-> FALSE, raised |-> FALSE]

-----------------------------------------------------------------------------
(* The single-service dashboard's detection run: main.py, _process_image *)

\* run.pc: "idle" (no run), "start" (button pressed), "detected" (line 220
\* returned), "sized" (line 223 done), "annotated" (line 230 done), "failed"
\* (an exception reached line 206). run.service: whether get_service gives a
\* service or None. run.writes: the fields of the result assigned after its
\* construction, in order.
NotRunning == [pc |-> "idle", service |-> "none", writes |-> <<>>]
RunOf(service) == [pc |-> "start", service |-> service, writes |-> <<>>]

\* line 223 left out: the result keeps the size its service gave it
SetImageDimensionsSkipped(r, size) == [result |-> r, written |-> <<>>]

\* line 223: result.image_dimensions = st.session_state.uploaded_image.size
SetImageDimensions(r, size) ==
    [result |-> [r EXCEPT !.image_dimensions = size], written |-> <<"image_dimensions">>]

-----------------------------------------------------------------------------
(* The multi-service dashboard's detection run: main_backup.py, _run_detection *)

\* batch.selected: st.session_state.selected_services; batch.services: what
\* get_service gives for each name, a service or None; batch.i: the loop's
\* position; batch.results: the local list `results`; batch.errors: the
\* st.error reports, in order; batch.detection_results and processed_images:
\* what the run left in the session; batch.notice: the closing message.
BatchOf(selected, services, threshold) ==
    [pc |-> "loop", selected |-> selected, services |-> services, threshold |-> threshold,
     i |-> 1, results |-> <<>>, errors |-> <<>>,
     detection_results |-> <<>>, processed_images |-> <<>>, notice |-> ""]
NotBatching ==
    [BatchOf(<<>>, [name \in {AzureName, GoogleName} |-> "none"], 0) EXCEPT !.pc = "idle"]

\* the first failure ends the loop
NextIndexAborting(i, total) == total + 1

\* lines 275 and 290-292: `continue`, or the except clause inside the loop
\* body: the loop goes on with the next service
NextIndexAfterFailure(i, total) == i + 1

\* lines 313-319: one processed image per result, under its service_name
RECURSIVE ProcessDetectionImages(_, _, _, _, _)
ProcessDetectionImages(results, image, threshold, hash, env) ==
    IF results = <<>> THEN <<>>
    ELSE LET call == DrawBoundingBoxesCall(HeapOf(image), Head(results), threshold, hash, env)
         IN  <<[service_name |-> Head(results).service_name,
                painted |-> call.heap[call.ref].painted]>>
             \o ProcessDetectionImages(Tail(results), image, threshold, hash, env)

-----------------------------------------------------------------------------
(* Two detect_objects calls running at once on the services' single instances *)

Threads == {1, 2}

\* A request: its vendor, the vendor's answer, where it stands (pc), the
\* loop index k of its parser, the client it holds and what it returned.
ThreadOf(vendor, input) ==
    [vendor |-> vendor, input |-> input, pc |-> "start", k |-> 0, client |-> 0,
     returned |-> <<>>]
NoThread == [ThreadOf("none", FieldNull) EXCEPT !.pc = "done"]
NoThreads == [t \in Threads |-> NoThread]
NoLists == [t \in Threads |-> <<>>]

\* one list kept on the service and used by every call
ParserListShared(t) == 1

\* azure_service.py line 75, google_service.py line 92: detections = [], a
\* list of the call's own
ParserList(t) == t

\* the records the parser of a request loops over
ThreadItems(thread) ==
    IF thread.vendor = "azure" THEN thread.input.predictions.items ELSE thread.input.items

\* what one pass of the parser's loop appends
ThreadParseItem(thread) ==
    IF thread.vendor = "azure" THEN AzureParseRecord(ThreadItems(thread)[thread.k])
    ELSE ParsePrediction(ThreadItems(thread)[thread.k])

-----------------------------------------------------------------------------
(* The results panel's grouping by tag: main_backup.py, _render_results_section *)

\* line 386: tag_groups = {} (a dict keeps its keys in insertion order)
EmptyDict == PyDict(<<>>, <<>>)

HasKey(dict, key) == \E i \in 1..Len(dict.keys) : dict.keys[i] = key

\* the body of the loop with the list of a tag replaced by its latest detection
GroupStepReplacing(tag_groups, detection) ==
    LET tag == detection.tag_name
    IN  IF HasKey(tag_groups, tag)
        THEN PyDict(tag_groups.keys, [tag_groups.at EXCEPT ![tag] = <<detection>>])
        ELSE PyDict(Append(tag_groups.keys, tag), (tag :> <<detection>>) @@ tag_groups.at)

\* lines 388-390: the body of the loop for one detection
GroupStep(tag_groups, detection) ==
    LET tag == detection.tag_name
        keyed_groups ==
            IF HasKey(tag_groups, tag) THEN tag_groups                  \* line 388
            ELSE PyDict(Append(tag_groups.keys, tag), (tag :> <<>>) @@ tag_groups.at)
    IN  PyDict(keyed_groups.keys,
               [keyed_groups.at EXCEPT ![tag] = Append(@, detection)])  \* line 390

\* lines 387-390: the loop over the filtered detections
RECURSIVE GroupLoop(_, _)
GroupLoop(tag_groups, detections) ==
    IF detections = <<>> THEN tag_groups
    ELSE GroupLoop(GroupStep(tag_groups, Head(detections)), Tail(detections))

\* lines 379-390: the names filtered_detections and tag_groups once the loop
\* has ended
GroupByTag(r, threshold) ==
    LET filtered_detections == GetHighConfidenceDetections(r, Threshold(threshold))
    IN  [called |-> TRUE, threshold |-> threshold,
         filtered_detections |-> filtered_detections,
         tag_groups |-> GroupLoop(EmptyDict, filtered_detections)]

NotGrouped ==
    [called |-> FALSE, threshold |-> 0, filtered_detections |-> <<>>, tag_groups |-> EmptyDict]

-----------------------------------------------------------------------------
(* Configuration and the service factory: config.py, service_factory.py *)

AzureUrl == "CUSTOMVISION_PREDICTION_URL"
AzureKey == "CUSTOMVISION_PREDICTION_KEY"
GoogleProject == "GOOGLE_PROJECT_ID"
GoogleEndpoint == "GOOGLE_ENDPOINT_ID"
EnvNames == {AzureUrl, AzureKey, GoogleProject, GoogleEndpoint}

\* config.py lines 75-84: both properties read without ConfigurationError
ValidateAzureConfig(env) == AzureUrl \in env /\ AzureKey \in env

\* config.py lines 86-95: google_location has a default and never raises
ValidateGoogleConfig(env) == GoogleProject \in env /\ GoogleEndpoint \in env

\* config.py lines 97-103: Config.get_available_services
GetAvailableServices(env) ==
    (IF ValidateAzureConfig(env) THEN <<AzureName>> ELSE <<>>)
        \o (IF ValidateGoogleConfig(env) THEN <<GoogleName>> ELSE <<>>)

\* service_factory.py lines 58-60: ServiceFactory.is_service_available
IsServiceAvailable(env, service_name) ==
    \E i \in 1..Len(GetAvailableServices(env)) : GetAvailableServices(env)[i] = service_name

\* What get_service hands back: None, or a service object; id tells one
\* object from another (the number of the call that constructed it).
NoService == [class |-> "None", id |-> 0]
ServiceObject(class, id) == [class |-> class, id |-> id]
\* no entry under a name of _services
Missing == [class |-> "<missing>", id |-> 0]

\* service_factory.py lines 29-52: ServiceFactory._create_service
CreateService(env, service_name, id) ==
    CASE service_name = AzureName ->
            IF ValidateAzureConfig(env) THEN ServiceObject("AzureCustomVisionService", id)
            ELSE NoService
      [] service_name = GoogleName ->
            IF ValidateGoogleConfig(env) THEN ServiceObject("GoogleAutoMLService", id)
            ELSE NoService
      [] OTHER -> NoService

\* get_service without the test of line 24: every call creates
GetServiceUncached(services, env, service_name, id) ==
    [services |-> [services EXCEPT ![service_name] = CreateService(env, service_name, id)],
     created |-> TRUE,
     returned |-> CreateService(env, service_name, id)]

\* service_factory.py lines 22-27: ServiceFactory.get_service; created tells
\* whether _create_service ran
GetService(services, env, service_name, id) ==
    LET create == services[service_name] = Missing                       \* line 24
        stored == IF create
                  THEN [services EXCEPT ![service_name] = CreateService(env, service_name, id)]
                  ELSE services                                          \* line 25
    IN  [services |-> stored, created |-> create, returned |-> stored[service_name]]

-----------------------------------------------------------------------------
(* The single-service dashboard's session: main.py, one script run per interaction *)

\* What detection_results holds: [] (line 37) or the result of a run; run is
\* the number of the detection run that stored it.
NoStoredResult == [exists |-> FALSE, result |-> NoResult, run |-> 0]
StoredResult(r, run_number) == [exists |-> TRUE, result |-> r, run |-> run_number]

\* lines 34-41 and the first script run: nothing uploaded, nothing detected,
\* the slider at its default of 0.5 (lines 102-106, 139-143)
NewSession(service_choice) ==
    [selected_service |-> service_choice, confidence_threshold |-> 5,
     uploaded_image |-> NoImage,
     detection_results |-> NoStoredResult,
     annotated_image |-> NoImage, annotated_run |-> 0,
     error |-> FALSE, runs |-> 0, interactions |-> 0]

\* lines 159-160: the sidebar stores what its widgets hold
RenderSidebar(state, service_choice, confidence_threshold) ==
    [state EXCEPT !.selected_service = service_choice,
                  !.confidence_threshold = confidence_threshold]

\* What the vendor call of a run comes to: get_service gives None ("service"),
\* detect_objects raises ("detect"), or it returns these detections.
NoAnswer(kind) == [kind |-> kind, detections |-> <<>>]
Answer(detections) == [kind |-> "result", detections |-> detections]

\* the image object a draw_bounding_boxes call returned
ImageReturned(call) == call.heap[call.ref]

\* lines 226-232: the annotation of the result and the pair returned
AnnotateAndReturn(state, sized, hash, env) ==
    [raised |-> FALSE, results |-> sized,
     annotated_image |->
        ImageReturned(DrawBoundingBoxesCall(HeapOf(state.uploaded_image), sized,
                                            state.confidence_threshold, hash, env))]

\* lines 209-232: _process_image
ProcessImage(state, answer, hash, env) ==
    IF answer.kind # "result" THEN [raised |-> TRUE, results |-> NoResult,
                                    annotated_image |-> NoImage]    \* lines 213-214, 220
    ELSE AnnotateAndReturn(
             state,
             SetImageDimensions(
                 DetectionResult(state.selected_service, answer.detections, 2,
                                 <<0, 0>>, state.confidence_threshold),         \* line 220
                 state.uploaded_image.size).result,                             \* line 223
             hash, env)

\* lines 201-207: what _run_detection stores once _process_image has returned
\* or raised; on an exception only st.error is called
StoreRun(state, processed) ==
    IF processed.raised THEN [state EXCEPT !.error = TRUE, !.runs = @ + 1]      \* line 206-207
    ELSE [state EXCEPT !.detection_results = StoredResult(processed.results, state.runs + 1),
                       !.annotated_image = processed.annotated_image,           \* lines 203-204
                       !.annotated_run = state.runs + 1,
                       !.error = FALSE, !.runs = @ + 1]

\* lines 196-207: _run_detection
RunDetection(state, answer, hash, env) ==
    StoreRun(state, ProcessImage(state, answer, hash, env))

\* lines 173-194: _render_file_upload; pressed: the button was clicked
StoreUpload(state, image) == [state EXCEPT !.uploaded_image = image, !.error = FALSE]
RenderFileUpload(state, image, pressed, answer, hash, env) ==
    IF ~image.exists THEN [state EXCEPT !.error = FALSE]                        \* line 184
    ELSE IF pressed THEN RunDetection(StoreUpload(state, image), answer, hash, env)
    ELSE StoreUpload(state, image)                                              \* line 189

\* lines 234-320: _render_results_section and _display_results: the header,
\* the detections listed and the annotated image shown
BlankScreen ==
    [results |-> FALSE, header |-> "", listed |-> <<>>, result_run |-> 0,
     produced_by |-> "", annotated |-> NoImage, annotated_run |-> 0]
\* lines 255-320: _display_results: a warning and nothing else when no
\* detection passes the filter
DisplayResults(state, service_name, filtered_detections) ==
    [results |-> TRUE,
     header |-> IF filtered_detections = <<>> THEN "" ELSE service_name,        \* lines 260-264
     listed |-> filtered_detections,
     result_run |-> state.detection_results.run,
     produced_by |-> state.detection_results.result.service_name,
     annotated |-> state.annotated_image,                                       \* lines 245-250
     annotated_run |-> state.annotated_run]
RenderResultsSection(state) ==
    IF ~state.detection_results.exists THEN BlankScreen                         \* line 238, 252
    ELSE DisplayResults(state,
                        state.selected_service,                                 \* line 240
                        GetHighConfidenceDetections(
                            state.detection_results.result,                     \* line 239
                            Threshold(state.confidence_threshold)))             \* line 258

\* lines 43-48: one script run, from the widgets' values to the rendered page
Rendered(state) ==
    [state |-> [state EXCEPT !.interactions = @ + 1], screen |-> RenderResultsSection(state)]
RunScript(state, service_choice, confidence_threshold, image, pressed, answer, hash, env) ==
    Rendered(RenderFileUpload(RenderSidebar(state, service_choice, confidence_threshold),
                              image, pressed, answer, hash, env))

-----------------------------------------------------------------------------
(* Inputs *)

Tags == {"cat", "dog", "car"}

UnitBox == BoundingBox(1, 2, 4, 7)

\* detections of the results the filter and the colouring are run on
FilterDetections == {Detection(tag, conf, UnitBox) : tag \in {"cat", "dog"}, conf \in {0, 3, 5}}
FilterResults ==
    {DetectionResult(AzureName, dets, 2, <<0, 0>>, thresh) :
        dets \in SeqsUpTo(FilterDetections, MaxDetections), thresh \in {0, 3, 5}}
ThresholdArgs == {NoThreshold} \cup {Threshold(t) : t \in {0, 3, 5, 7}}

ColorDetections == {Detection(tag, conf, UnitBox) : tag \in Tags, conf \in {3, 9}}
ColorResults ==
    {DetectionResult(AzureName, dets, 2, <<0, 0>>, 3) :
        dets \in SeqsUpTo(ColorDetections, MaxTags)}
ColorThresholds == {3, 9}
\* the string hashes a process may have drawn for the tags
HashValues == {1, 6}

\* enumerations of unique tags longer than the palette: what line 44 hands to
\* the colour loop when a result names many classes
ManyTags == <<"ant", "bat", "cow", "doe", "eel", "fox", "gnu", "hen", "ibis", "jay",
              "kite", "lynx">>
Rotation(start, n) == [i \in 1..n |-> ManyTags[((start + i - 1) % Len(ManyTags)) + 1]]
Enumerations == {Rotation(start, n) : start \in 0..(Len(ManyTags) - 1), n \in 0..Len(ManyTags)}

\* what draw_bounding_boxes finds around it: the image's size, what fails, and
\* the metrics of the font that loaded
PlainSize == <<20, 10>>
DrawEnv(size, fault, strict, text_height) ==
    [size |-> size, fault |-> fault, strict |-> strict,
     text_height |-> text_height, char_width |-> 2]
PlainEnv == DrawEnv(PlainSize, "none", TRUE, 3)
DrawEnvs ==
    {DrawEnv(size, fault, strict, 3) :
        size \in {PlainSize, <<7, 5>>}, fault \in {"none", "copy", "font", "text"},
        strict \in BOOLEAN}

\* detections to annotate: a plain box, one at the top edge, one that starts
\* left of the image (Azure passes such a box on), one of negative width
\* (no normalizer emits it; a caller can construct it) and one low in the image
DrawDetections ==
    { Detection("cat", 9, UnitBox),
      Detection("dog", 3, BoundingBox(5, 0, 5, 4)),
      Detection("cat", 3, BoundingBox(-1, 2, 4, 7)),
      Detection("car", 9, BoundingBox(6, 5, -2, 3)),
      Detection("car", 9, BoundingBox(2, 8, 3, 2)) }
DrawResults ==
    {DetectionResult(AzureName, dets, 2, <<0, 0>>, 3) :
        dets \in SeqsUpTo(DrawDetections, MaxDetections)}
DrawHash == [tag \in Tags |-> IF tag = "dog" THEN 6 ELSE 1]

\* results to serialise: every field varies
DictDetections ==
    { Detection("cat", 9, UnitBox),
      Detection("dog", 0, BoundingBox(-1, 0, 12, 4)),
      Detection(NoneTag, 15, BoundingBox(5, 5, 3, 3)) }
DictResults ==
    {DetectionResult(name, dets, ptime, dims, thresh) :
        name \in {AzureName, GoogleName},
        dets \in SeqsUpTo(DictDetections, MaxDetections),
        ptime \in {0, 2}, dims \in {<<0, 0>>, <<4, 3>>}, thresh \in {0, 5}}

\* Azure prediction records: well-formed ones and one per way of being unusable
AzureBoxes ==
    { BoxDict(Num(1), Num(2), Num(4), Num(7)),
      BoxDict(NumStr(1), NumStr(2), NumStr(4), NumStr(7)),     \* "0.1", ...: coerced
      BoxDict(Num(9), Num(2), Num(5), Num(7)),                 \* reaches past the right edge
      BoxDict(Num(-1), Num(2), Num(4), Num(7)),                \* starts left of the image
      BoxDict(Num(1), Num(2), Num(0), Num(7)),                 \* width 0
      BoxDict(Num(1), Num(2), Num(4), Num(-1)),                \* negative height
      BoxDict(Num(1), Num(2), Null, Num(7)),                   \* width null
      BoxDict(Num(1), Num(2), Num(4), Absent),                 \* height missing
      BoxAbsent, BoxNull, BoxEmpty, BoxList }
AzureRecords ==
    {AzureRecord(box, Label("cat"), Num(9)) : box \in AzureBoxes}
    \cup {AzureRecord(BoxDict(Num(5), Num(5), Num(3), Num(3)), tag, Num(3)) :
             tag \in {Label("dog"), NoLabel, NullLabel}}
    \cup {AzureRecord(BoxDict(Num(0), Num(0), Num(10), Num(10)), Label("car"), prob) :
             prob \in {Absent, Null, NumStr(9), Num(12)}}       \* 1.2: past the unit range
    \cup {AzureNotADict}
AzureResponses(n) ==
    {AzureResponse("dict", "list", items) : items \in SeqsUpTo(AzureRecords, n)}
    \cup {AzureResponse("dict", "absent", <<>>), AzureResponse("dict", "null", <<>>),
          AzureResponse("other", "absent", <<>>)}

\* the clock of a call: the request takes two ticks, the parser one tick for
\* every record it goes through
AzureCallOf(failure, response) ==
    [active |-> TRUE, failure |-> failure, response |-> response,
     start |-> 1, answered |-> 3, parsed |-> 3 + Len(response.predictions.items),
     confidence_threshold |-> 3]
AzureCalls(n) ==
    {AzureCallOf("none", response) : response \in AzureResponses(n)}
    \cup {AzureCallOf("transport", AzureResponse("dict", "absent", <<>>))}
NoAzureCall == [AzureCallOf("none", AzureResponse("dict", "absent", <<>>)) EXCEPT !.active = FALSE]

\* Google records: entries of a prediction's parallel lists
GoogleBoxes ==
    { CoordList(<<Num(1), Num(5), Num(2), Num(9)>>),
      CoordList(<<Num(-1), Num(12), Num(2), Num(9)>>),         \* clamped to the image
      CoordList(<<Num(5), Num(5), Num(2), Num(9)>>),           \* width 0
      CoordList(<<Num(1), Num(5), Num(2)>>),                   \* three coordinates
      CoordList(<<Num(1), Null, Num(2), Num(9)>>),             \* a null coordinate
      NullBox }
GoogleRecords ==
    {GoogleRecord("cat", box, Num(9)) : box \in GoogleBoxes}
    \cup {GoogleRecord("dog", CoordList(<<Num(0), Num(10), Num(0), Num(10)>>), score) :
             score \in {Num(3), Null, Num(-2), Num(12)}}       \* -0.2 and 1.2 as well

NamesOf(recs)  == FieldList([i \in 1..Len(recs) |-> recs[i].name])
BoxesOf(recs)  == FieldList([i \in 1..Len(recs) |-> recs[i].box])
ScoresOf(recs) == FieldList([i \in 1..Len(recs) |-> recs[i].score])

TwoGood == <<GoogleRecord("cat", CoordList(<<Num(1), Num(5), Num(2), Num(9)>>), Num(9)),
             GoogleRecord("dog", CoordList(<<Num(0), Num(10), Num(0), Num(10)>>), Num(3))>>
OneGood == <<GoogleRecord("car", CoordList(<<Num(2), Num(6), Num(3), Num(8)>>), Num(5))>>

\* predictions whose three lists line up, in both formats
RichPredictions(n) ==
    {Prediction(format, NamesOf(recs), BoxesOf(recs), ScoresOf(recs), FieldAbsent) :
        format \in {"pb", "dict"}, recs \in SeqsUpTo(GoogleRecords, n)}
\* predictions with a missing, null or shorter list, and vertex-based results
OddPredictions ==
    { BadPrediction,
      Prediction("dict", NamesOf(TwoGood), FieldAbsent, ScoresOf(TwoGood), FieldAbsent),
      Prediction("dict", FieldNull, BoxesOf(TwoGood), ScoresOf(TwoGood), FieldAbsent),
      Prediction("dict", NamesOf(TwoGood), BoxesOf(TwoGood), FieldNull, FieldAbsent),
      Prediction("dict", NamesOf(TwoGood), BoxesOf(TwoGood), FieldAbsent, ScoresOf(TwoGood)),
      Prediction("dict", NamesOf(TwoGood), BoxesOf(TwoGood), FieldAbsent, FieldAbsent),
      Prediction("dict", NamesOf(TwoGood), BoxesOf(OneGood), ScoresOf(TwoGood), FieldAbsent),
      Prediction("pb", NamesOf(TwoGood), FieldAbsent, ScoresOf(TwoGood), FieldAbsent),
      Prediction("pb", NamesOf(TwoGood), BoxesOf(TwoGood), FieldNull, FieldAbsent),
      Prediction("pb", NamesOf(OneGood), BoxesOf(TwoGood), ScoresOf(TwoGood), FieldAbsent),
      VertexResult("cat", 9, << <<2, 3>>, <<6, 3>>, <<6, 8>>, <<2, 8>> >>),
      VertexResult("cat", 9, << <<2, 3>> >>) }
\* the predictions a varied one may stand next to
NeighbourPredictions ==
    { BadPrediction,
      Prediction("dict", NamesOf(OneGood), BoxesOf(OneGood), ScoresOf(OneGood), FieldAbsent) }
GoogleResponses(n) ==
    {FieldList(<<p>>) : p \in RichPredictions(n) \cup OddPredictions}
    \cup {FieldList(<<c, p>>) : c \in NeighbourPredictions, p \in RichPredictions(n) \cup OddPredictions}
    \cup {FieldList(<<p, c>>) : c \in NeighbourPredictions, p \in RichPredictions(n) \cup OddPredictions}
    \cup {FieldNull, FieldList(<<>>)}

GoogleCallOf(failure, predictions) ==
    [active |-> TRUE, failure |-> failure, predictions |-> predictions,
     start |-> 1, answered |-> 3, parsed |-> 3 + Len(predictions.items),
     imageSize |-> <<4, 3>>, confidence_threshold |-> 5]
GoogleCalls(n) ==
    {GoogleCallOf("none", predictions) : predictions \in GoogleResponses(n)}
    \cup {GoogleCallOf(failure, FieldNull) : failure \in {"image", "credentials", "predict"}}
NoGoogleCall == [GoogleCallOf("none", FieldNull) EXCEPT !.active = FALSE]

\* calls of _create_detection_from_box
CoordValues == {-2, 0, 1, 2, 5, 9, 12}
BoxCallBoxes ==
    {CoordList(<<Num(a), Num(b), Num(c), Num(d)>>) :
        a \in CoordValues, b \in CoordValues, c \in CoordValues, d \in CoordValues}
    \cup {CoordList(<<Num(a), Num(b), Num(c)>>) : a \in {1}, b \in {5}, c \in {2, 9}}
    \cup {CoordList(<<Num(1), Num(5), Num(2), Num(9), Num(d)>>) : d \in {0, 5}}
    \cup {CoordList(<<>>), NullBox, CoordList(<<Num(1), Null, Num(2), Num(9)>>),
          CoordList(<<NumStr(1), NumStr(5), NumStr(2), NumStr(9)>>)}
BoxCalls ==
    {[called |-> FALSE, name |-> "cat", box |-> box, score |-> Num(9)] : box \in BoxCallBoxes}
    \cup {[called |-> FALSE, name |-> "dog",
           box |-> CoordList(<<Num(1), Num(5), Num(2), Num(9)>>), score |-> score] :
             score \in {Num(3), Null, NumStr(3)}}
NoBoxCall == [called |-> FALSE, name |-> "", box |-> NullBox, score |-> Absent]

\* the uploaded image of a dashboard run, and the vendor calls it may make
RunSize == <<4, 3>>
RunRecords ==
    << AzureRecord(BoxDict(Num(1), Num(2), Num(4), Num(7)), Label("cat"), Num(9)),
       AzureRecord(BoxDict(Num(5), Num(5), Num(3), Num(3)), Label("dog"), Num(3)),
       AzureRecord(BoxDict(Num(1), Num(2), Num(0), Num(7)), Label("car"), Num(9)) >>
RunAzureCalls ==
    {AzureCallOf("none", AzureResponse("dict", "list", SubSeq(RunRecords, 1, n))) : n \in 0..3}
    \cup {AzureCallOf("none", AzureResponse("dict", "null", <<>>)),
          AzureCallOf("transport", AzureResponse("dict", "absent", <<>>))}
RunGoogleCalls ==
    {GoogleCallOf("none", predictions) :
        predictions \in {FieldNull, FieldList(<<>>),
                         FieldList(<<Prediction("dict", NamesOf(TwoGood), BoxesOf(TwoGood),
                                                ScoresOf(TwoGood), FieldAbsent)>>),
                         FieldList(<<Prediction("pb", NamesOf(OneGood), BoxesOf(OneGood),
                                                ScoresOf(OneGood), FieldAbsent)>>)}}
    \cup {GoogleCallOf(failure, FieldNull) : failure \in {"image", "credentials", "predict"}}
RunEnvs == {DrawEnv(RunSize, fault, TRUE, 3) : fault \in {"none", "font", "text"}}
RunHash == [tag \in Tags \cup {ZeroName, NoneTag} |-> IF tag = "dog" THEN 6 ELSE 1]

\* the service lists a multi-service run may be started with
Selections ==
    {<<AzureName>>, <<GoogleName>>, <<AzureName, GoogleName>>, <<GoogleName, AzureName>>}
ServiceStates == [{AzureName, GoogleName} -> {"created", "none"}]

\* the requests that may run side by side
ThreadInputs ==
    {ThreadOf("azure", AzureResponse("dict", "list", SubSeq(RunRecords, 1, n))) : n \in 0..3}
    \cup {ThreadOf("azure", AzureResponse("dict", "null", <<>>)),
          ThreadOf("azure", AzureResponse("dict", "list", <<RunRecords[2], RunRecords[1]>>))}
    \cup {ThreadOf("google", predictions) :
             predictions \in {FieldNull,
                              FieldList(<<Prediction("dict", NamesOf(TwoGood), BoxesOf(TwoGood),
                                                     ScoresOf(TwoGood), FieldAbsent)>>),
                              FieldList(<<Prediction("dict", NamesOf(OneGood), BoxesOf(OneGood),
                                                     ScoresOf(OneGood), FieldAbsent),
                                          Prediction("dict", NamesOf(TwoGood), BoxesOf(TwoGood),
                                                     ScoresOf(TwoGood), FieldAbsent)>>)}}

\* results to group: tags that repeat and alternate, told apart by their boxes
GroupDetections ==
    {Detection(tag, conf, box) :
        tag \in {"cat", "dog"}, conf \in {3, 9}, box \in {UnitBox, BoundingBox(5, 5, 3, 3)}}
GroupResults ==
    {DetectionResult(AzureName, dets, 2, <<4, 3>>, 5) :
        dets \in SeqsUpTo(GroupDetections, MaxDetections)}
GroupThresholds == {3, 9}

\* the names get_service is asked for: the two services and a name it does
\* not know
ServiceNames == {AzureName, GoogleName, "Other Vision"}
\* how many get_service calls and how many changes of the environment a
\* behaviour holds
MaxCalls == 3
MaxChanges == 2
\* service_factory.py line 20: self._services = {}
NoServices == [service_name \in ServiceNames |-> Missing]
NoFactoryLog ==
    [calls |-> 0, changes |-> 0,
     creations |-> [service_name \in ServiceNames |-> 0],
     first |-> NoServices,
     last |-> [service_name |-> "", returned |-> Missing, available |-> FALSE]]

\* the session: the services offered, the slider's positions, the images to
\* upload, what a vendor call comes to, and how many interactions a session has
SessionServices == {AzureName, GoogleName}
SessionThresholds == {3, 5, 9}
SessionImages == {LoadedImage(PlainSize), LoadedImage(<<7, 5>>)}
SessionAnswers ==
    { NoAnswer("service"), NoAnswer("detect"), Answer(<<>>),
      Answer(<<Detection("cat", 9, UnitBox), Detection("dog", 3, BoundingBox(5, 0, 5, 4))>>),
      Answer(<<Detection("dog", 9, BoundingBox(2, 8, 3, 2))>>) }
MaxInteractions == 4

-----------------------------------------------------------------------------
(* A component no operation has been run on *)

IdleFilter ==
    /\ filterCall = [called |-> FALSE, arg |-> NoThreshold]
    /\ filtered = <<>>
IdleDetect ==
    /\ azureCall = NoAzureCall
    /\ googleCall = NoGoogleCall
    /\ outcome = NoOutcome
IdleBox ==
    /\ boxCall = NoBoxCall
    /\ boxRet = <<>>
IdleColor ==
    /\ hashOf = [tag \in DOMAIN RunHash |-> 0]
    /\ drawn = NotColoured
    /\ keyed = NotColoured
IdleDraw ==
    /\ images = HeapOf(NoImage)
    /\ drawEnv = PlainEnv
    /\ drawRet = NotDrawn
IdleDict ==
    /\ asDict = NotSerialised
IdleRun ==
    /\ run = NotRunning
IdleBatch ==
    /\ batch = NotBatching
IdleConc ==
    /\ threads = NoThreads
    /\ lists = NoLists
    /\ predictionClient = 0
    /\ overlapped = FALSE
IdleGroup ==
    /\ tagGroups = NotGrouped
IdleFactory ==
    /\ environ = {}
    /\ factoryServices = NoServices
    /\ factoryLog = NoFactoryLog
IdleSession ==
    /\ session = NewSession("")
    /\ screen = BlankScreen

-----------------------------------------------------------------------------
(* The confidence filter on a result *)

InitFilter ==
    /\ IdleSession
    /\ IdleFactory
    /\ IdleGroup
    /\ IdleConc
    /\ IdleBatch
    /\ IdleRun
    /\ IdleDict
    /\ IdleDraw
    /\ result \in FilterResults
    /\ IdleFilter
    /\ IdleDetect
    /\ IdleBox
    /\ IdleColor

\* a caller runs result.get_high_confidence_detections(arg)
CallFilter ==
    /\ ~filterCall.called
    /\ \E arg \in ThresholdArgs :
          /\ filterCall' = [called |-> TRUE, arg |-> arg]
          /\ filtered' = GetHighConfidenceDetections(result, arg)
    /\ UNCHANGED <<result, notFilterVars>>

NextFilter == CallFilter

SpecFilter == InitFilter /\ [][NextFilter]_vars

-----------------------------------------------------------------------------
(* One detect_objects call on one of the services *)

InitDetect ==
    /\ IdleSession
    /\ IdleFactory
    /\ IdleGroup
    /\ IdleConc
    /\ IdleBatch
    /\ IdleRun
    /\ IdleDict
    /\ IdleDraw
    /\ \/ azureCall \in AzureCalls(MaxRecords) /\ googleCall = NoGoogleCall
       \/ azureCall = NoAzureCall /\ googleCall \in GoogleCalls(MaxRecords)
    /\ outcome = NoOutcome
    /\ result = NoResult
    /\ IdleFilter
    /\ IdleBox
    /\ IdleColor

AzureDetectObjects ==
    /\ azureCall.active
    /\ outcome.kind = "none"
    /\ outcome' = AzureOutcome(azureCall)
    /\ UNCHANGED <<azureCall, googleCall, notDetectVars>>

GoogleDetectObjects ==
    /\ googleCall.active
    /\ outcome.kind = "none"
    /\ outcome' = GoogleOutcome(googleCall)
    /\ UNCHANGED <<azureCall, googleCall, notDetectVars>>

NextDetect == AzureDetectObjects \/ GoogleDetectObjects

SpecDetect == InitDetect /\ [][NextDetect]_vars

-----------------------------------------------------------------------------
(* One _create_detection_from_box call *)

InitBox ==
    /\ IdleSession
    /\ IdleFactory
    /\ IdleGroup
    /\ IdleConc
    /\ IdleBatch
    /\ IdleRun
    /\ IdleDict
    /\ IdleDraw
    /\ boxCall \in BoxCalls
    /\ boxRet = <<>>
    /\ result = NoResult
    /\ IdleFilter
    /\ IdleDetect
    /\ IdleColor

CallCreateDetectionFromBox ==
    /\ ~boxCall.called
    /\ boxCall' = [boxCall EXCEPT !.called = TRUE]
    /\ boxRet' = CreateDetectionFromBox(boxCall.name, boxCall.box, boxCall.score)
    /\ UNCHANGED notBoxVars

NextBox == CallCreateDetectionFromBox

SpecBox == InitBox /\ [][NextBox]_vars

-----------------------------------------------------------------------------
(* Colouring one result twice: on the annotated image and in the colour key *)

InitColor ==
    /\ IdleSession
    /\ IdleFactory
    /\ IdleGroup
    /\ IdleConc
    /\ IdleBatch
    /\ IdleRun
    /\ IdleDict
    /\ hashOf \in [Tags -> HashValues]
    /\ result \in ColorResults
    /\ drawn = NotColoured
    /\ keyed = NotColoured
    /\ images = HeapOf(LoadedImage(PlainSize))
    /\ drawEnv = PlainEnv
    /\ drawRet = NotDrawn
    /\ IdleFilter
    /\ IdleDetect
    /\ IdleBox

\* the detection run annotates the image at the slider's threshold
DrawBoundingBoxes ==
    /\ ~drawn.called
    /\ \E threshold \in ColorThresholds :
          LET call == DrawBoundingBoxesCall(images, result, threshold, hashOf, drawEnv)
          IN  /\ drawn' = IF drawEnv.fault = "copy"
                          THEN [NotColoured EXCEPT !.called = TRUE, !.threshold = threshold]
                          ELSE DrawColors(result, threshold, hashOf)
              /\ images' = call.heap
              /\ drawRet' = [called |-> TRUE, ref |-> call.ref, failed |-> call.failed,
                             raised |-> call.raised]
    /\ UNCHANGED <<result, hashOf, keyed, drawEnv, notColorVars>>

\* a later render shows the colour key at the slider's threshold of that time
RenderColorKey ==
    /\ drawn.called
    /\ ~keyed.called
    /\ \E threshold \in ColorThresholds :
          keyed' = ShowColorKey(result, threshold, hashOf)
    /\ UNCHANGED <<result, hashOf, drawn, drawVars, notColorVars>>

NextColor == DrawBoundingBoxes \/ RenderColorKey

SpecColor == InitColor /\ [][NextColor]_vars

-----------------------------------------------------------------------------
(* One draw_bounding_boxes call, in every environment *)

InitDraw ==
    /\ IdleSession
    /\ IdleFactory
    /\ IdleGroup
    /\ IdleConc
    /\ IdleBatch
    /\ IdleRun
    /\ IdleDict
    /\ drawEnv \in DrawEnvs
    /\ images = HeapOf(LoadedImage(drawEnv.size))
    /\ drawRet = NotDrawn
    /\ result \in DrawResults
    /\ hashOf = DrawHash
    /\ drawn = NotColoured
    /\ keyed = NotColoured
    /\ IdleFilter
    /\ IdleDetect
    /\ IdleBox

NextDraw == DrawBoundingBoxes

SpecDraw == InitDraw /\ [][NextDraw]_vars

-----------------------------------------------------------------------------
(* Serialising a result *)

InitDict ==
    /\ IdleSession
    /\ IdleFactory
    /\ IdleGroup
    /\ IdleConc
    /\ IdleBatch
    /\ IdleRun
    /\ result \in DictResults
    /\ asDict = NotSerialised
    /\ IdleFilter
    /\ IdleDetect
    /\ IdleBox
    /\ IdleColor
    /\ IdleDraw

\* a caller runs result.to_dict()
CallToDict ==
    /\ ~asDict.called
    /\ asDict' = [called |-> TRUE, value |-> ResultToDict(result)]
    /\ UNCHANGED notDictVars

NextDict == CallToDict

SpecDict == InitDict /\ [][NextDict]_vars

-----------------------------------------------------------------------------
(* One detection run of the single-service dashboard *)

InitRun ==
    /\ IdleSession
    /\ IdleFactory
    /\ IdleGroup
    /\ IdleConc
    /\ IdleBatch
    /\ \/ azureCall \in RunAzureCalls /\ googleCall = NoGoogleCall
       \/ azureCall = NoAzureCall /\ googleCall \in RunGoogleCalls
    /\ outcome = NoOutcome
    /\ run \in {RunOf(service) : service \in {"created", "none"}}
    /\ result = NoResult
    /\ drawEnv \in RunEnvs
    /\ images = HeapOf(LoadedImage(RunSize))
    /\ drawRet = NotDrawn
    /\ hashOf = RunHash
    /\ drawn = NotColoured
    /\ keyed = NotColoured
    /\ IdleFilter
    /\ IdleBox
    /\ IdleDict

\* main.py lines 212-220: get_service, then service.detect_objects; a missing
\* service (line 214) or a raising call ends the run at line 206
ProcessImageDetect ==
    /\ run.pc = "start"
    /\ LET answer == IF run.service = "none" THEN RaisedOutcome
                     ELSE IF azureCall.active THEN AzureOutcome(azureCall)
                     ELSE GoogleOutcome(googleCall)
       IN  /\ outcome' = IF run.service = "none" THEN outcome ELSE answer
           /\ result' = IF answer.kind = "result" THEN answer.result ELSE result
           /\ run' = [run EXCEPT !.pc = IF answer.kind = "result" THEN "detected" ELSE "failed"]
    /\ UNCHANGED <<azureCall, googleCall, filterCall, filtered, boxVars, colorVars,
                   drawVars, dictVars, batchVars, concVars, groupVars, factoryVars, sessionVars>>

\* main.py line 223
ProcessImageSetDimensions ==
    /\ run.pc = "detected"
    /\ LET set == SetImageDimensions(result, images.source.size)
       IN  /\ result' = set.result
           /\ run' = [run EXCEPT !.pc = "sized", !.writes = @ \o set.written]
    /\ UNCHANGED <<filterCall, filtered, detectVars, boxVars, colorVars, drawVars, dictVars, batchVars, concVars, groupVars, factoryVars, sessionVars>>

\* main.py lines 226-230: the annotation, at the threshold of the detection
ProcessImageAnnotate ==
    /\ run.pc = "sized"
    /\ LET threshold == result.confidence_threshold
           call == DrawBoundingBoxesCall(images, result, threshold, hashOf, drawEnv)
       IN  /\ drawn' = DrawColors(result, threshold, hashOf)
           /\ images' = call.heap
           /\ drawRet' = [called |-> TRUE, ref |-> call.ref, failed |-> call.failed,
                          raised |-> call.raised]
    /\ run' = [run EXCEPT !.pc = "annotated"]
    /\ UNCHANGED <<filterVars, detectVars, boxVars, hashOf, keyed, drawEnv, dictVars, batchVars, concVars, groupVars, factoryVars, sessionVars>>

NextRun == ProcessImageDetect \/ ProcessImageSetDimensions \/ ProcessImageAnnotate

SpecRun == InitRun /\ [][NextRun]_vars

-----------------------------------------------------------------------------
(* One detection run of the multi-service dashboard *)

InitBatch ==
    /\ IdleSession
    /\ IdleFactory
    /\ IdleGroup
    /\ IdleConc
    /\ azureCall \in RunAzureCalls
    /\ googleCall \in RunGoogleCalls
    /\ outcome = NoOutcome
    /\ batch \in {BatchOf(selected, services, 3) :
                      selected \in Selections, services \in ServiceStates}
    /\ result = NoResult
    /\ drawEnv = DrawEnv(RunSize, "none", TRUE, 3)
    /\ images = HeapOf(LoadedImage(RunSize))
    /\ drawRet = NotDrawn
    /\ hashOf = RunHash
    /\ drawn = NotColoured
    /\ keyed = NotColoured
    /\ IdleFilter
    /\ IdleBox
    /\ IdleDict
    /\ IdleRun

\* main_backup.py lines 267-292: one pass of the loop over selected_services
RunDetectionIteration ==
    /\ batch.pc = "loop"
    /\ batch.i <= Len(batch.selected)
    /\ LET service_name == batch.selected[batch.i]
           total == Len(batch.selected)
           answer == IF service_name = AzureName THEN AzureOutcome(azureCall)
                     ELSE GoogleOutcome(googleCall)                          \* line 278
       IN  IF batch.services[service_name] = "none"                          \* lines 273-275
           THEN batch' = [batch EXCEPT
                             !.errors = Append(@, [service |-> service_name, kind |-> "initialize"]),
                             !.i = NextIndexAfterFailure(batch.i, total)]
           ELSE IF answer.kind = "raised"                                    \* lines 290-292
           THEN batch' = [batch EXCEPT
                             !.errors = Append(@, [service |-> service_name, kind |-> "detection"]),
                             !.i = NextIndexAfterFailure(batch.i, total)]
           ELSE batch' = [batch EXCEPT                                       \* lines 281-283
                             !.results = Append(@, [answer.result EXCEPT
                                                       !.image_dimensions = images.source.size]),
                             !.i = batch.i + 1]
    /\ UNCHANGED notBatchVars

\* main_backup.py lines 294-305, with _process_detection_images (lines 307-325)
RunDetectionFinish ==
    /\ batch.pc = "loop"
    /\ batch.i > Len(batch.selected)
    /\ batch' = IF batch.results # <<>>
                THEN [batch EXCEPT !.pc = "done", !.notice = "completed",
                                   !.detection_results = batch.results,
                                   !.processed_images =
                                       ProcessDetectionImages(batch.results, images.source,
                                                              batch.threshold, hashOf, drawEnv)]
                ELSE [batch EXCEPT !.pc = "done", !.notice = "no results"]
    /\ UNCHANGED notBatchVars

NextBatch == RunDetectionIteration \/ RunDetectionFinish

SpecBatch == InitBatch /\ [][NextBatch]_vars

-----------------------------------------------------------------------------
(* Two requests, every interleaving of their steps *)

InitConc ==
    /\ IdleSession
    /\ IdleFactory
    /\ IdleGroup
    /\ threads \in [Threads -> ThreadInputs]
    /\ lists = NoLists
    /\ predictionClient = 0
    /\ overlapped = FALSE
    /\ result = NoResult
    /\ IdleFilter
    /\ IdleDetect
    /\ IdleBox
    /\ IdleColor
    /\ IdleDraw
    /\ IdleDict
    /\ IdleRun
    /\ IdleBatch

UnderWay(t) == threads[t].pc \notin {"start", "done", "raised"}
Moves(t) == overlapped' = (overlapped \/ \E u \in Threads \ {t} : UnderWay(u))

\* google_service.py line 26: if self._prediction_client is None
GetClientCheck(t) ==
    /\ threads[t].vendor = "google"
    /\ threads[t].pc = "start"
    /\ threads' = [threads EXCEPT ![t].pc = IF predictionClient = 0 THEN "create" ELSE "have"]
    /\ Moves(t)
    /\ UNCHANGED <<lists, predictionClient, notConcVars>>

\* google_service.py line 31: self._prediction_client = PredictionServiceClient(...)
GetClientCreate(t) ==
    /\ threads[t].pc = "create"
    /\ predictionClient' = t
    /\ threads' = [threads EXCEPT ![t].pc = "have"]
    /\ Moves(t)
    /\ UNCHANGED <<lists, notConcVars>>

\* google_service.py line 35: return self._prediction_client
GetClientReturn(t) ==
    /\ threads[t].pc = "have"
    /\ threads' = [threads EXCEPT ![t].pc = "request", ![t].client = predictionClient]
    /\ Moves(t)
    /\ UNCHANGED <<lists, predictionClient, notConcVars>>

\* azure_service.py lines 34-49 and 75-80, google_service.py lines 48-74 and
\* 92-98: the request is answered and the parser starts, with a new list
BeginParse(t) ==
    /\ \/ threads[t].vendor = "azure" /\ threads[t].pc = "start"
       \/ threads[t].vendor = "google" /\ threads[t].pc = "request"
    /\ LET thread == threads[t]
           raises == thread.vendor = "azure" /\ ParseAzureResponse(thread.input).raised
           empty == thread.vendor = "google" /\ thread.input.kind # "list"
       IN  /\ threads' = [threads EXCEPT ![t].pc = IF raises THEN "raised"
                                                  ELSE IF empty THEN "done" ELSE "parse",
                                         ![t].k = 1]
           /\ lists' = IF raises \/ empty THEN lists ELSE [lists EXCEPT ![ParserList(t)] = <<>>]
    /\ Moves(t)
    /\ UNCHANGED <<predictionClient, notConcVars>>

\* azure_service.py lines 82-120, google_service.py lines 100-172: one pass
\* of the loop
ParseItem(t) ==
    /\ threads[t].pc = "parse"
    /\ threads[t].k <= Len(ThreadItems(threads[t]))
    /\ lists' = [lists EXCEPT ![ParserList(t)] = @ \o ThreadParseItem(threads[t])]
    /\ threads' = [threads EXCEPT ![t].k = @ + 1]
    /\ Moves(t)
    /\ UNCHANGED <<predictionClient, notConcVars>>

\* azure_service.py line 123, google_service.py line 175: return detections
EndParse(t) ==
    /\ threads[t].pc = "parse"
    /\ threads[t].k > Len(ThreadItems(threads[t]))
    /\ threads' = [threads EXCEPT ![t].pc = "done", ![t].returned = lists[ParserList(t)]]
    /\ Moves(t)
    /\ UNCHANGED <<lists, predictionClient, notConcVars>>

ThreadStep(t) ==
    \/ GetClientCheck(t)
    \/ GetClientCreate(t)
    \/ GetClientReturn(t)
    \/ BeginParse(t)
    \/ ParseItem(t)
    \/ EndParse(t)

NextConc == \E t \in Threads : ThreadStep(t)

SpecConc == InitConc /\ [][NextConc]_vars

-----------------------------------------------------------------------------
(* The colour loop of draw_bounding_boxes on an enumeration of unique tags *)

InitPalette ==
    /\ IdleSession
    /\ IdleFactory
    /\ IdleGroup
    /\ IdleConc
    /\ IdleBatch
    /\ IdleRun
    /\ IdleDict
    /\ drawn \in {[NotColoured EXCEPT !.unique_tags = tags] : tags \in Enumerations}
    /\ hashOf = [tag \in DOMAIN RunHash |-> 0]
    /\ keyed = NotColoured
    /\ result = NoResult
    /\ IdleDraw
    /\ IdleFilter
    /\ IdleDetect
    /\ IdleBox

\* image_processor.py lines 45-47 run on the list line 44 produced
AssignTagColors ==
    /\ ~drawn.called
    /\ drawn' = [drawn EXCEPT !.called = TRUE, !.tag_colors = TagColors(drawn.unique_tags)]
    /\ UNCHANGED <<result, hashOf, keyed, drawVars, notColorVars>>

NextPalette == AssignTagColors

SpecPalette == InitPalette /\ [][NextPalette]_vars

-----------------------------------------------------------------------------
(* Grouping the detections of one result in the results panel *)

InitGroup ==
    /\ IdleSession
    /\ IdleFactory
    /\ result \in GroupResults
    /\ tagGroups = NotGrouped
    /\ IdleFilter
    /\ IdleDetect
    /\ IdleBox
    /\ IdleColor
    /\ IdleDraw
    /\ IdleDict
    /\ IdleRun
    /\ IdleBatch
    /\ IdleConc

\* main_backup.py lines 379-390, at the threshold the slider holds
GroupDetectionsByTag ==
    /\ ~tagGroups.called
    /\ \E threshold \in GroupThresholds : tagGroups' = GroupByTag(result, threshold)
    /\ UNCHANGED notGroupVars

NextGroup == GroupDetectionsByTag

SpecGroup == InitGroup /\ [][NextGroup]_vars

-----------------------------------------------------------------------------
(* One ServiceFactory: get_service calls while the configuration changes *)

InitFactory ==
    /\ IdleSession
    /\ environ \in SUBSET EnvNames
    /\ factoryServices = NoServices
    /\ factoryLog = NoFactoryLog
    /\ result = NoResult
    /\ IdleFilter
    /\ IdleDetect
    /\ IdleBox
    /\ IdleColor
    /\ IdleDraw
    /\ IdleDict
    /\ IdleRun
    /\ IdleBatch
    /\ IdleConc
    /\ IdleGroup

\* a caller runs factory.get_service(service_name)
CallGetService ==
    /\ factoryLog.calls < MaxCalls
    /\ \E service_name \in ServiceNames :
          LET call == GetService(factoryServices, environ, service_name, factoryLog.calls + 1)
          IN  /\ factoryServices' = call.services
              /\ factoryLog' =
                    [factoryLog EXCEPT
                       !.calls = @ + 1,
                       !.creations[service_name] = IF call.created THEN @ + 1 ELSE @,
                       !.first[service_name] = IF @ = Missing THEN call.returned ELSE @,
                       !.last = [service_name |-> service_name, returned |-> call.returned,
                                 available |-> IsServiceAvailable(environ, service_name)]]
    /\ UNCHANGED <<environ, notFactoryVars>>

\* the environment changes under the running process: a variable is set or
\* unset; Config reads os.getenv at every access (config.py lines 37-73)
ChangeConfiguration ==
    /\ factoryLog.changes < MaxChanges
    /\ \E name \in EnvNames :
          environ' = IF name \in environ THEN environ \ {name} ELSE environ \cup {name}
    /\ factoryLog' = [factoryLog EXCEPT !.changes = @ + 1]
    /\ UNCHANGED <<factoryServices, notFactoryVars>>

NextFactory == CallGetService \/ ChangeConfiguration

SpecFactory == InitFactory /\ [][NextFactory]_vars

-----------------------------------------------------------------------------
(* One session of the single-service dashboard *)

InitSession ==
    /\ session \in {NewSession(service_choice) : service_choice \in SessionServices}
    /\ screen = BlankScreen
    /\ result = NoResult
    /\ IdleFilter
    /\ IdleDetect
    /\ IdleBox
    /\ IdleColor
    /\ IdleDraw
    /\ IdleDict
    /\ IdleRun
    /\ IdleBatch
    /\ IdleConc
    /\ IdleGroup
    /\ IdleFactory

\* the script run an interaction triggers: the widgets the user left alone
\* give the values they had
Interact(service_choice, confidence_threshold, image, pressed, answer) ==
    /\ session.interactions < MaxInteractions
    /\ \E ran \in {RunScript(session, service_choice, confidence_threshold, image, pressed,
                              answer, RunHash, PlainEnv)} :
          session' = ran.state /\ screen' = ran.screen
    /\ UNCHANGED notSessionVars

\* the user moves the confidence slider
MoveSlider ==
    \E confidence_threshold \in SessionThresholds \ {session.confidence_threshold} :
        Interact(session.selected_service, confidence_threshold, session.uploaded_image,
                 FALSE, NoAnswer("detect"))

\* the user picks the other service
SelectService ==
    \E service_choice \in SessionServices \ {session.selected_service} :
        Interact(service_choice, session.confidence_threshold, session.uploaded_image,
                 FALSE, NoAnswer("detect"))

\* the user uploads an image
UploadImage ==
    \E image \in SessionImages \ {session.uploaded_image} :
        Interact(session.selected_service, session.confidence_threshold, image,
                 FALSE, NoAnswer("detect"))

\* the user presses Detect Objects, shown once an image is uploaded (line 193)
PressDetect ==
    /\ session.uploaded_image.exists
    /\ \E answer \in SessionAnswers :
          Interact(session.selected_service, session.confidence_threshold,
                   session.uploaded_image, TRUE, answer)

NextSession == MoveSlider \/ SelectService \/ UploadImage \/ PressDetect

SpecSession == InitSession /\ [][NextSession]_vars

-----------------------------------------------------------------------------
(* All the operations together *)

Init == InitFilter \/ InitDetect \/ InitBox \/ InitColor \/ InitDraw \/ InitDict \/ InitRun \/ InitBatch \/ InitConc \/ InitPalette \/ InitGroup \/ InitFactory \/ InitSession

Next == NextFilter \/ NextDetect \/ NextBox \/ NextColor \/ NextDraw \/ NextDict \/ NextRun \/ NextBatch \/ NextConc \/ NextPalette \/ NextGroup \/ NextFactory \/ NextSession

Spec == Init /\ [][Next]_vars

-----------------------------------------------------------------------------
(* Properties of the confidence filter *)

FilterThresholds == {0, 3, 5, 7}

\* the positions of the detections at or above t
KeptIndices(dets, t) == {i \in 1..Len(dets) : dets[i].confidence >= t}
\* the k-th smallest member of a set of positions
NthOf(S, k) == CHOOSE i \in S : Cardinality({j \in S : j <= i}) = k
\* the detections at or above t, each once, in their original order
ExactlyAtOrAbove(dets, t) ==
    [k \in 1..Cardinality(KeptIndices(dets, t)) |-> dets[NthOf(KeptIndices(dets, t), k)]]

\* C1: get_high_confidence_detections(t) returns exactly the detections with
\* confidence >= t in their original order; with no argument t is the result's
\* own confidence_threshold, and an explicit 0.0 is used as given.
C1_FilterExact ==
    filterCall.called =>
        /\ filterCall.arg.given =>
              filtered = ExactlyAtOrAbove(result.detections, filterCall.arg.value)
        /\ ~filterCall.arg.given =>
              filtered = ExactlyAtOrAbove(result.detections, result.confidence_threshold)

\* an explicit 0.0 on a result whose own threshold would have dropped something
C1_Witness ==
    /\ filterCall.called
    /\ filterCall.arg = Threshold(0)
    /\ result.confidence_threshold = 5
    /\ Len(result.detections) = 3
    /\ \E i \in 1..3 : result.detections[i].confidence = 0
    /\ filtered = result.detections

\* C2: filter monotonicity: what a call with threshold t returns is a subsequence
\* of what every lower threshold returns, and contains as a subsequence what
\* every higher threshold returns.
C2_FilterMonotone ==
    (filterCall.called /\ filterCall.arg.given) =>
        \A t \in FilterThresholds :
            /\ t < filterCall.arg.value =>
                  IsSubseq(filtered, GetHighConfidenceDetections(result, Threshold(t)))
            /\ t > filterCall.arg.value =>
                  IsSubseq(GetHighConfidenceDetections(result, Threshold(t)), filtered)

\* a call whose list is non-empty and strictly shorter than a lower threshold's
C2_Witness ==
    /\ filterCall.called
    /\ filterCall.arg = Threshold(5)
    /\ Len(filtered) > 0
    /\ Len(filtered) < Len(GetHighConfidenceDetections(result, Threshold(3)))
    /\ Len(GetHighConfidenceDetections(result, Threshold(3))) < Len(result.detections)

-----------------------------------------------------------------------------
(* Properties of the Azure normalizer *)

AzureReturned == azureCall.active /\ outcome.kind = "result"
AzureHasRecordList ==
    /\ azureCall.active
    /\ azureCall.failure = "none"
    /\ azureCall.response.shape = "dict"
    /\ azureCall.response.predictions.kind = "list"
AzureRecordsIn == azureCall.response.predictions.items

IsNumber(x) == x.kind = "num"
\* a coordinate float() accepts: a number, a numeric string, or a missing key (0.0)
Coercible(x) == x.kind \in {"num", "numstr", "absent"}
Coerced(x) == IF x.kind = "absent" THEN 0 ELSE x.n
CoercedBox(box) ==
    BoundingBox(Coerced(box.left), Coerced(box.top), Coerced(box.width), Coerced(box.height))

\* the record's bounding box is present with width > 0 and height > 0
BoxPresentPositive(rec) ==
    /\ rec.isDict
    /\ rec.boundingBox.kind = "dict"
    /\ Coercible(rec.boundingBox.width) /\ Coerced(rec.boundingBox.width) > 0
    /\ Coercible(rec.boundingBox.height) /\ Coerced(rec.boundingBox.height) > 0

\* ... and nothing else in the record fails to parse
AzureUsable(rec) ==
    /\ BoxPresentPositive(rec)
    /\ Coercible(rec.boundingBox.left) /\ Coercible(rec.boundingBox.top)
    /\ rec.probability.kind \in {"num", "absent"}

BoxesOfRecords(recs) == [i \in 1..Len(recs) |-> CoercedBox(recs[i].boundingBox)]
BoxesOfDetections(dets) == [i \in 1..Len(dets) |-> dets[i].bounding_box]
KeyOf(conf, box) == [confidence |-> conf, bounding_box |-> box]
KeysOfDetections(dets) ==
    [i \in 1..Len(dets) |-> KeyOf(dets[i].confidence, dets[i].bounding_box)]
AzureKeys(recs) ==
    [i \in 1..Len(recs) |-> KeyOf(Coerced(recs[i].probability), CoercedBox(recs[i].boundingBox))]

\* C3 as stated: for every payload with a record list the parser returns exactly
\* the records whose bounding box is present with width > 0 and height > 0, in
\* the vendor's order.
C3_Original ==
    (AzureHasRecordList /\ outcome.kind # "none") =>
        /\ outcome.kind = "result"
        /\ BoxesOfDetections(outcome.result.detections)
              = BoxesOfRecords(SelectSeq(AzureRecordsIn, BoxPresentPositive))

\* C3 amended: whenever _parse_azure_response returns, the list holds exactly the
\* records that are mappings with an absent or numeric probability and a
\* non-empty boundingBox mapping whose coordinates float() accepts, with width > 0
\* and height > 0, in the vendor's order; every other record is dropped alone.
C3_AzureExact ==
    AzureReturned =>
        KeysOfDetections(outcome.result.detections)
           = AzureKeys(SelectSeq(AzureRecordsIn, AzureUsable))

\* three records, the second of width 0: the first and the third are returned
C3_Witness ==
    /\ AzureReturned
    /\ Len(AzureRecordsIn) = 3
    /\ AzureUsable(AzureRecordsIn[1])
    /\ AzureRecordsIn[2].boundingBox.kind = "dict"
    /\ AzureRecordsIn[2].boundingBox.width = Num(0)
    /\ AzureUsable(AzureRecordsIn[3])
    /\ AzureRecordsIn[1] # AzureRecordsIn[3]
    /\ BoxesOfDetections(outcome.result.detections)
          = <<CoercedBox(AzureRecordsIn[1].boundingBox), CoercedBox(AzureRecordsIn[3].boundingBox)>>

-----------------------------------------------------------------------------
(* Properties of both normalizers *)

GoogleReturned == googleCall.active /\ outcome.kind = "result"
GooglePredictionsIn ==
    IF googleCall.predictions.kind = "list" THEN googleCall.predictions.items ELSE <<>>

\* the list a prediction's scores are read from, if it has one
ScoreField(p) ==
    IF p.confidences.kind # "absent" \/ p.format = "pb" THEN p.confidences ELSE p.scores

\* the records of a prediction: the entries its three lists pair up
RecordsOfPrediction(p) ==
    IF p.format = "bad" \/ p.displayNames.kind # "list" \/ p.bboxes.kind # "list"
          \/ ScoreField(p).kind # "list"
    THEN <<>>
    ELSE [k \in 1..Min2(Len(p.displayNames.items),
                        Min2(Len(p.bboxes.items), Len(ScoreField(p).items))) |->
            GoogleRecord(p.displayNames.items[k], p.bboxes.items[k], ScoreField(p).items[k])]

RECURSIVE RecordsOfPredictions(_)
RecordsOfPredictions(ps) ==
    IF ps = <<>> THEN <<>>
    ELSE RecordsOfPrediction(Head(ps)) \o RecordsOfPredictions(Tail(ps))

Clamp01(v) == IF v < 0 THEN 0 ELSE IF v > One THEN One ELSE v

\* the box a 4-tuple read as (xmin, xmax, ymin, ymax) stands for
TupleBox(coords) ==
    BoundingBox(Clamp01(coords[1].n), Clamp01(coords[3].n),
                Clamp01(coords[2].n) - Clamp01(coords[1].n),
                Clamp01(coords[4].n) - Clamp01(coords[3].n))

\* a record with a numeric score and a box of at least four numbers that
\* spans a positive area
GoogleWellFormed(rec) ==
    /\ IsNumber(rec.score)
    /\ rec.box.kind = "list"
    /\ Len(rec.box.coords) >= 4
    /\ \A j \in 1..4 : IsNumber(rec.box.coords[j])
    /\ TupleBox(rec.box.coords).width > 0
    /\ TupleBox(rec.box.coords).height > 0

GoogleKeys(recs) ==
    [i \in 1..Len(recs) |-> KeyOf(recs[i].score.n, TupleBox(recs[i].box.coords))]

\* C4: in both normalizers a record that fails to parse is skipped alone: every
\* well-formed record of the response, before or after it, is in the output, in
\* order (Azure and Google), and nothing else is (Azure).
C4_RecordIsolation ==
    /\ AzureReturned =>
          /\ IsSubseq(AzureKeys(SelectSeq(AzureRecordsIn, AzureUsable)),
                      KeysOfDetections(outcome.result.detections))
          /\ Len(outcome.result.detections)
                = Len(SelectSeq(AzureRecordsIn, AzureUsable))
    /\ GoogleReturned =>
          IsSubseq(GoogleKeys(SelectSeq(RecordsOfPredictions(GooglePredictionsIn),
                                        GoogleWellFormed)),
                   KeysOfDetections(outcome.result.detections))

\* one Google prediction of three records, the middle one with a null box: the
\* two around it are both returned
C4_Witness ==
    /\ GoogleReturned
    /\ Len(GooglePredictionsIn) = 1
    /\ GooglePredictionsIn[1].format = "dict"
    /\ Len(RecordsOfPrediction(GooglePredictionsIn[1])) = 3
    /\ GoogleWellFormed(RecordsOfPrediction(GooglePredictionsIn[1])[1])
    /\ RecordsOfPrediction(GooglePredictionsIn[1])[2].box = NullBox
    /\ GoogleWellFormed(RecordsOfPrediction(GooglePredictionsIn[1])[3])
    /\ RecordsOfPrediction(GooglePredictionsIn[1])[1] # RecordsOfPrediction(GooglePredictionsIn[1])[3]
    /\ Len(outcome.result.detections) = 2

\* C5: box validity: every detection a normalizer returns has width > 0 and
\* height > 0, and left, top, left+width and top+height within [0, 1].
C5_BoxValidity ==
    outcome.kind = "result" =>
        \A i \in 1..Len(outcome.result.detections) :
            LET b == outcome.result.detections[i].bounding_box
            IN  /\ b.width > 0 /\ b.height > 0
                /\ 0 <= b.left /\ b.left <= One
                /\ 0 <= b.top /\ b.top <= One
                /\ 0 <= b.left + b.width /\ b.left + b.width <= One
                /\ 0 <= b.top + b.height /\ b.top + b.height <= One

-----------------------------------------------------------------------------
(* Properties of the Google box conversions *)

\* C6: a box of at least four numbers is read as (xmin, xmax, ymin, ymax), each
\* clamped to [0, 1]; the detection has left = xmin, top = ymin,
\* width = xmax - xmin, height = ymax - ymin; there is no detection when the
\* width or the height so computed is <= 0 or the box has fewer than four
\* coordinates.
C6_TupleConversion ==
    (boxCall.called /\ boxCall.box.kind = "list") =>
        /\ Len(boxCall.box.coords) < 4 => boxRet = <<>>
        /\ (/\ Len(boxCall.box.coords) >= 4
            /\ \A j \in 1..4 : IsNumber(boxCall.box.coords[j])
            /\ IsNumber(boxCall.score)) =>
              LET xmin == Clamp01(boxCall.box.coords[1].n)
                  xmax == Clamp01(boxCall.box.coords[2].n)
                  ymin == Clamp01(boxCall.box.coords[3].n)
                  ymax == Clamp01(boxCall.box.coords[4].n)
              IN  IF xmax - xmin <= 0 \/ ymax - ymin <= 0
                  THEN boxRet = <<>>
                  ELSE boxRet = <<Detection(boxCall.name, boxCall.score.n,
                                      BoundingBox(xmin, ymin, xmax - xmin, ymax - ymin))>>

\* (0.1, 0.5, 0.2, 0.9) gives left 0.1, top 0.2, width 0.4, height 0.7
C6_Witness ==
    /\ boxCall.called
    /\ boxCall.box = CoordList(<<Num(1), Num(5), Num(2), Num(9)>>)
    /\ boxCall.score = Num(9)
    /\ boxRet = <<Detection("cat", 9, BoundingBox(1, 2, 4, 7))>>

SetOfSeq(q) == {q[i] : i \in 1..Len(q)}
MinOf(S) == CHOOSE m \in S : \A x \in S : m <= x
MaxOf(S) == CHOOSE m \in S : \A x \in S : m >= x
\* the axis-aligned box around a set of vertices
VertexBox(vertices) ==
    LET xs == {vertices[i][1] : i \in 1..Len(vertices)}
        ys == {vertices[i][2] : i \in 1..Len(vertices)}
    IN  BoundingBox(MinOf(xs), MinOf(ys), MaxOf(xs) - MinOf(xs), MaxOf(ys) - MinOf(ys))

\* C7: a result whose bounding region is a set of at least two vertices gives a
\* detection with left = min x, top = min y, width = max x - left,
\* height = max y - top; a vertex set of fewer than two points gives none.
C7_VertexConversion ==
    GoogleReturned =>
        \A i \in 1..Len(GooglePredictionsIn) :
            LET p == GooglePredictionsIn[i]
            IN  (p.format = "dict" /\ p.vertices.kind = "list") =>
                   IF Len(p.vertices.items) >= 2
                   THEN VertexBox(p.vertices.items)
                           \in SetOfSeq(BoxesOfDetections(outcome.result.detections))
                   ELSE Len(GooglePredictionsIn) = 1 => outcome.result.detections = <<>>

-----------------------------------------------------------------------------
(* Properties of detect_objects *)

\* the vendor answered, and the answer holds no prediction record
NoRecordsAnswered ==
    \/ /\ azureCall.active
       /\ azureCall.failure = "none"
       /\ azureCall.response.shape = "dict"
       /\ \/ azureCall.response.predictions.kind \in {"absent", "null"}
          \/ azureCall.response.predictions.items = <<>>
    \/ /\ googleCall.active
       /\ googleCall.failure = "none"
       /\ GooglePredictionsIn = <<>>

\* C8: a response with zero or absent prediction records (an empty list, no
\* 'predictions' key, a null predictions value) gives a DetectionResult with
\* zero detections, never an error, for both vendors.
C8_EmptyResponse ==
    (NoRecordsAnswered /\ outcome.kind # "none") =>
        /\ outcome.kind = "result"
        /\ outcome.result.detections = <<>>

\* the vendor call itself failed: the request, the authentication or the predict call
TransportFailed ==
    \/ azureCall.active /\ azureCall.failure = "transport"
    \/ googleCall.active /\ googleCall.failure \in {"credentials", "predict"}
\* the vendor call returned a response
VendorAnswered ==
    \/ azureCall.active /\ azureCall.failure = "none"
    \/ googleCall.active /\ googleCall.failure = "none"

\* C9: detect_objects raises only when the transport/vendor call itself fails;
\* whenever the vendor call returns a response it returns a DetectionResult.
C9_RaisesOnlyOnTransport ==
    /\ outcome.kind = "raised" => TransportFailed
    /\ (VendorAnswered /\ outcome.kind # "none") => outcome.kind = "result"

-----------------------------------------------------------------------------
(* Properties of the tag colours *)

\* C10: colour determinism: two colourings over the same set of unique tags give
\* the same tag -> colour mapping, so a tag's colour on the annotated image is
\* its colour in the colour key.
C10_ColorDeterminism ==
    (/\ drawn.called
     /\ keyed.called
     /\ SetOfSeq(drawn.unique_tags) = SetOfSeq(keyed.unique_tags)) =>
        \A tag \in SetOfSeq(drawn.unique_tags) :
            drawn.tag_colors[tag] = keyed.tag_colors[tag]

-----------------------------------------------------------------------------
(* Properties of the palette assignment *)

PaletteSize == 10

PositionsOf(tags) == 1..Len(tags)

\* C11: after the colour loop every tag of the enumeration has a colour, the
\* tag at position i (counted from 0) has colors[i mod 10]; an enumeration of
\* at most 10 tags gets pairwise distinct colours, and in a longer one the
\* eleventh tag wraps around to the colour of the first.
C11_PaletteAssignment ==
    drawn.called =>
        LET tags == drawn.unique_tags
            colors == drawn.tag_colors
        IN  /\ DOMAIN colors = {tags[i] : i \in PositionsOf(tags)}
            /\ \A i \in PositionsOf(tags) :
                   colors[tags[i]] = Colors[((i - 1) % PaletteSize) + 1]
            /\ Len(tags) <= PaletteSize =>
                   \A i, j \in PositionsOf(tags) : i # j => colors[tags[i]] # colors[tags[j]]
            /\ Len(tags) > PaletteSize =>
                   colors[tags[PaletteSize + 1]] = colors[tags[1]]

C11_Witness ==
    /\ drawn.called
    /\ Len(drawn.unique_tags) > PaletteSize
    /\ drawn.tag_colors[drawn.unique_tags[PaletteSize + 1]] = Colors[1]

-----------------------------------------------------------------------------
(* Properties of the annotation *)

ReturnedImage == images[drawRet.ref]
BelowAll(dets, t) == \A i \in 1..Len(dets) : dets[i].confidence < t
OpsOf(ops, kind) == LET Is(o) == o.op = kind IN SelectSeq(ops, Is)
SurvivorsAt(dets, t) == LET AtOrAbove(d) == ~(d.confidence < t) IN SelectSeq(dets, AtOrAbove)

\* C12: a draw_bounding_boxes call, whether it succeeds or fails inside,
\* leaves the caller's image (size and pixels) and the DetectionResult as they
\* were; whatever it paints lands on the copy.
C12_InputsUntouched ==
    [][DrawBoundingBoxes =>
          /\ images'.source = images.source
          /\ result' = result
          /\ drawRet'.ref = "copy" => images'.copy.size = images.source.size]_vars

C12_Witness ==
    /\ drawRet.called
    /\ drawRet.failed
    /\ images.copy.painted # <<>>
    /\ images.source.painted = <<>>

\* C13: draw_bounding_boxes never raises to its caller; when the pipeline
\* fails inside (the copy, the fonts, a box Pillow refuses, a label the font
\* cannot measure) the call returns the caller's image, with nothing painted
\* on it.
C13_NeverRaises ==
    drawRet.called =>
        /\ ~drawRet.raised
        /\ drawRet.ref \in {"source", "copy"}
        /\ ReturnedImage.exists
        /\ drawRet.failed => (drawRet.ref = "source" /\ ReturnedImage.painted = <<>>)

C13_Witness ==
    /\ drawRet.called
    /\ drawRet.failed
    /\ drawEnv.fault = "none"
    /\ drawRet.ref = "source"
    /\ images.copy.painted # <<>>

\* C14: when the threshold passed is above the confidence of every detection
\* of the result, nothing is painted on any image and the image returned has
\* the size and the pixels of the source.
C14_NoOp ==
    (drawRet.called /\ BelowAll(result.detections, drawn.threshold)) =>
        /\ images.copy.painted = <<>>
        /\ ReturnedImage.painted = <<>>
        /\ ReturnedImage.size = images.source.size
        /\ images.source = LoadedImage(drawEnv.size)

C14_Witness ==
    /\ drawRet.called
    /\ ~drawRet.failed
    /\ drawRet.ref = "copy"
    /\ Len(result.detections) > 1
    /\ BelowAll(result.detections, drawn.threshold)

\* C15: on a call that succeeds, the image returned carries, for the k-th
\* detection at or above the threshold passed (in list order), exactly one
\* outline followed by one label panel and one label text, and nothing else:
\* nothing for a detection below the threshold, whatever threshold the result
\* itself stores.
C15_OnePerSurvivor ==
    (drawRet.called /\ ~drawRet.failed) =>
        LET survivors == SurvivorsAt(result.detections, drawn.threshold)
            ops == ReturnedImage.painted
            outlines == OpsOf(ops, "rectangle")
            labels == OpsOf(ops, "text")
        IN  /\ Len(outlines) = Len(survivors)
            /\ Len(labels) = Len(survivors)
            /\ Len(ops) = 3 * Len(survivors)
            /\ \A k \in 1..Len(survivors) :
                   /\ ops[3 * k - 2] = outlines[k]
                   /\ ops[3 * k] = labels[k]
                   /\ labels[k].text = LabelOf(survivors[k].tag_name)
                   /\ outlines[k].xy[1] = Pixel(survivors[k].bounding_box.left, ReturnedImage.size[1])
                   /\ outlines[k].xy[2] = Pixel(survivors[k].bounding_box.top, ReturnedImage.size[2])

C15_Witness ==
    /\ drawRet.called
    /\ ~drawRet.failed
    /\ drawn.threshold # result.confidence_threshold
    /\ Len(OpsOf(ReturnedImage.painted, "rectangle")) = 2
    /\ Len(result.detections) = 3

-----------------------------------------------------------------------------
(* Properties of the serialisation *)

\* reading a result back from its dictionary, key by key
BoxFromDict(d) == BoundingBox(d.at.left, d.at.top, d.at.width, d.at.height)
DetectionFromDict(d) == Detection(d.at.tag_name, d.at.confidence, BoxFromDict(d.at.bounding_box))
ResultFromDict(d) ==
    DetectionResult(d.at.service_name,
                    [i \in 1..Len(d.at.detections) |-> DetectionFromDict(d.at.detections[i])],
                    d.at.processing_time, d.at.image_dimensions, d.at.confidence_threshold)

\* C16: the dictionary to_dict returns has the five keys of a result, each
\* detection the three of a detection and each box its four coordinates, and
\* the result rebuilt from it has the same field values and the same
\* detections in the same order as the one serialised.
C16_RoundTrip ==
    asDict.called =>
        /\ DOMAIN asDict.value.at = {asDict.value.keys[i] : i \in 1..Len(asDict.value.keys)}
        /\ Len(asDict.value.keys) = 5
        /\ Len(asDict.value.at.detections) = Len(result.detections)
        /\ ResultFromDict(asDict.value) = result

C16_Witness ==
    /\ asDict.called
    /\ Len(result.detections) = 3
    /\ result.detections[1] # result.detections[2]
    /\ result.image_dimensions # <<0, 0>>
    /\ ResultFromDict(asDict.value).detections[2] = result.detections[2]

-----------------------------------------------------------------------------
(* Properties of the detection run *)

RunWroteDimensionsOnce ==
    /\ run.pc \in {"start", "detected", "failed"} => run.writes = <<>>
    /\ run.pc = "detected" => result = outcome.result
    /\ run.pc \in {"sized", "annotated"} =>
          /\ run.writes = <<"image_dimensions">>
          /\ result = [outcome.result EXCEPT !.image_dimensions = images.source.size]
    /\ drawRet.called => run.writes = <<"image_dimensions">>

\* C17 as stated: the result either vendor's detect_objects returns carries
\* image_dimensions (0,0); the run then writes image_dimensions once, before
\* the annotation, and writes no other field.
C17_Original ==
    /\ outcome.kind = "result" => outcome.result.image_dimensions = <<0, 0>>
    /\ RunWroteDimensionsOnce

\* C17: the result Azure's detect_objects returns carries image_dimensions
\* (0,0) and the one Google's returns the size of the image it decoded from
\* the request; the run then writes image_dimensions exactly once, with the
\* uploaded image's size and before the annotation, and every other field of
\* the result stays as constructed.
C17_Lifecycle ==
    /\ outcome.kind = "result" =>
          outcome.result.image_dimensions =
              (IF azureCall.active THEN <<0, 0>> ELSE googleCall.imageSize)
    /\ RunWroteDimensionsOnce

C17_Witness ==
    /\ run.pc = "annotated"
    /\ googleCall.active
    /\ outcome.result.image_dimensions # <<0, 0>>
    /\ result.detections # <<>>
    /\ run.writes = <<"image_dimensions">>

-----------------------------------------------------------------------------
(* Properties of the multi-service run *)

\* what a service answers when it is the only one asked
Standalone(service_name) ==
    IF service_name = AzureName THEN AzureOutcome(azureCall) ELSE GoogleOutcome(googleCall)
Succeeds(service_name) ==
    batch.services[service_name] = "created" /\ Standalone(service_name).kind = "result"
Succeeded == SelectSeq(batch.selected, Succeeds)
Failed == LET Fails(service_name) == ~Succeeds(service_name) IN SelectSeq(batch.selected, Fails)

\* C18: when the loop over the selected services has ended, the collected
\* results are those of the services whose call returned, each as that service
\* returns it alone (with the image's size written in), in selection order;
\* every other selected service has exactly one error report and no result,
\* and a service that returned no detections has a result and no error report.
C18_VendorIsolation ==
    batch.pc = "done" =>
        /\ Len(batch.results) = Len(Succeeded)
        /\ \A k \in 1..Len(Succeeded) :
               batch.results[k] = [Standalone(Succeeded[k]).result EXCEPT
                                      !.image_dimensions = images.source.size]
        /\ [k \in 1..Len(batch.errors) |-> batch.errors[k].service] = Failed
        /\ batch.results # <<>> => batch.detection_results = batch.results
        /\ \A k \in 1..Len(batch.results) :
               \A j \in 1..Len(batch.errors) :
                   batch.errors[j].service # batch.results[k].service_name

C18_Witness ==
    /\ batch.pc = "done"
    /\ batch.selected = <<AzureName, GoogleName>>
    /\ Len(batch.errors) = 1
    /\ batch.errors[1] = [service |-> AzureName, kind |-> "detection"]
    /\ Len(batch.results) = 1
    /\ batch.results[1].service_name = GoogleName
    /\ batch.results[1].detections = <<>>

-----------------------------------------------------------------------------
(* Properties of requests running at once *)

\* what the parser of a request returns when nothing else runs
Alone(thread) ==
    IF thread.vendor = "azure" THEN ParseAzureResponse(thread.input)
    ELSE ParseResponse(thread.input)

\* C19: however the steps of two requests interleave, a request that returns
\* returns the detection list its parser gives when run alone, one that
\* raises is one that raises alone, every Google request goes on with a
\* client, and the palette is the one the program started with.
C19_NoInterference ==
    \A t \in Threads :
        /\ threads[t].pc = "done" =>
               (~Alone(threads[t]).raised /\ threads[t].returned = Alone(threads[t]).detections)
        /\ threads[t].pc = "raised" => Alone(threads[t]).raised
        /\ threads[t].pc \in {"request", "parse"} /\ threads[t].vendor = "google" =>
               threads[t].client \in Threads

C19_Witness ==
    /\ overlapped
    /\ \A t \in Threads : threads[t].pc = "done" /\ Len(threads[t].returned) >= 2
    /\ threads[1].vendor = threads[2].vendor
    /\ threads[1].returned # threads[2].returned

-----------------------------------------------------------------------------
(* Properties of the result's stamp *)

DetectCall == IF azureCall.active THEN azureCall ELSE googleCall
DetectVendor == IF azureCall.active THEN "azure" ELSE "google"

\* C20: a result detect_objects returns carries the display name its service
\* gives as get_service_name(), and a processing_time that is not negative
\* and spans the call from its start to the moment the parser has returned.
C20_StampAndTiming ==
    outcome.kind = "result" =>
        /\ outcome.result.service_name = GetServiceName(DetectVendor)
        /\ outcome.result.processing_time >= 0
        /\ outcome.result.processing_time = DetectCall.parsed - DetectCall.start

-----------------------------------------------------------------------------
(* Properties of the confidence a detection carries *)

ConfidencesOf(dets) == [i \in 1..Len(dets) |-> dets[i].confidence]

\* the box of a Google record yields a detection: at least four numbers that
\* span a positive area once clamped
GoogleBoxUsable(rec) ==
    /\ rec.box.kind = "list"
    /\ Len(rec.box.coords) >= 4
    /\ \A j \in 1..4 : IsNumber(rec.box.coords[j])
    /\ TupleBox(rec.box.coords).width > 0
    /\ TupleBox(rec.box.coords).height > 0

\* the records of a prediction that yield a detection: a protobuf prediction
\* needs a usable box only, a mapping a numeric score as well
EmittingRecords(p) ==
    LET Emits(rec) == GoogleBoxUsable(rec) /\ (p.format = "pb" \/ IsNumber(rec.score))
    IN  SelectSeq(RecordsOfPrediction(p), Emits)

RECURSIVE EmittingOfPredictions(_)
EmittingOfPredictions(ps) ==
    IF ps = <<>> THEN <<>>
    ELSE EmittingRecords(Head(ps)) \o EmittingOfPredictions(Tail(ps))

\* the score fields of the records the detections of the outcome came from
ScoresBehindOutcome ==
    IF azureCall.active
    THEN LET recs == SelectSeq(AzureRecordsIn, AzureUsable)
         IN  [i \in 1..Len(recs) |-> recs[i].probability]
    ELSE LET recs == EmittingOfPredictions(GooglePredictionsIn)
         IN  [i \in 1..Len(recs) |-> recs[i].score]

\* C21 as stated: every detection a normalizer emits carries the probability or
\* score of the record it came from, unchanged: the record holds that number.
C21_Original ==
    (AzureReturned \/ GoogleReturned) =>
        /\ Len(outcome.result.detections) = Len(ScoresBehindOutcome)
        /\ \A i \in 1..Len(ScoresBehindOutcome) :
              ScoresBehindOutcome[i] = Num(outcome.result.detections[i].confidence)

\* C21 amended: a detection that comes from a record with a numeric probability
\* or score carries that number, neither re-scaled nor clamped (1.2 stays 1.2,
\* -0.2 stays -0.2); a detection from a record that holds no number there (no
\* probability key in an Azure record, a non-number among the confidences of a
\* protobuf prediction) carries 0.0.
C21_PassThrough ==
    (AzureReturned \/ GoogleReturned) =>
        /\ Len(outcome.result.detections) = Len(ScoresBehindOutcome)
        /\ \A i \in 1..Len(ScoresBehindOutcome) :
              outcome.result.detections[i].confidence
                 = IF IsNumber(ScoresBehindOutcome[i]) THEN ScoresBehindOutcome[i].n ELSE 0

\* a Google response whose detections carry 1.2 and -0.2
C21_Witness ==
    /\ GoogleReturned
    /\ Len(ScoresBehindOutcome) >= 2
    /\ \E i, j \in 1..Len(outcome.result.detections) :
          /\ ScoresBehindOutcome[i] = Num(12) /\ outcome.result.detections[i].confidence = 12
          /\ ScoresBehindOutcome[j] = Num(-2) /\ outcome.result.detections[j].confidence = -2

-----------------------------------------------------------------------------
(* Properties of the label a detection carries *)

TagsOf(dets) == [i \in 1..Len(dets) |-> dets[i].tag_name]

\* the label expected of a record: its tagName, "Unknown" when it has none
ExpectedTag(rec) == IF rec.tagName.kind = "str" THEN rec.tagName.s ELSE "Unknown"

\* C22: an Azure record with a valid box and no usable label (tagName missing
\* or null) is neither dropped nor a failure: it yields a detection whose
\* tag_name is "Unknown".
C22_UnknownLabel ==
    AzureReturned =>
        LET recs == SelectSeq(AzureRecordsIn, AzureUsable)
        IN  TagsOf(outcome.result.detections) = [i \in 1..Len(recs) |-> ExpectedTag(recs[i])]

-----------------------------------------------------------------------------
(* Properties of the pixel geometry of an annotation *)

\* floor(coordinate * extent), the coordinate counted in tenths
FloorPixel(coord, extent) == (coord * extent) \div One

\* a box a normalizer can emit: width > 0 and height > 0
Emittable(box) == box.width > 0 /\ box.height > 0

DrawnOutlines == OpsOf(ReturnedImage.painted, "rectangle")
DrawnPanels == OpsOf(ReturnedImage.painted, "panel")
DrawnLabels == OpsOf(ReturnedImage.painted, "text")
DrawnSurvivors == SurvivorsAt(result.detections, drawn.threshold)
DrewAll == drawRet.called /\ ~drawRet.failed

\* C23: the outline of every drawn detection that a normalizer can emit has
\* the corners floor(left*W), floor(top*H), floor((left+width)*W),
\* floor((top+height)*H), with (W, H) the size of the image itself, a box
\* with a negative left or top included.
C23_FloorCorners ==
    DrewAll =>
        \A k \in 1..Len(DrawnSurvivors) :
            LET box == DrawnSurvivors[k].bounding_box
                W == images.source.size[1]
                H == images.source.size[2]
            IN  Emittable(box) =>
                    DrawnOutlines[k].xy = <<FloorPixel(box.left, W),
                                            FloorPixel(box.top, H),
                                            FloorPixel(box.left + box.width, W),
                                            FloorPixel(box.top + box.height, H)>>


\* C24: the label of every drawn detection is anchored at the column of the
\* outline's left edge and at the row max(0, top - text_height - 2), top being
\* the outline's top edge: the row is never negative, and it is 0 whenever
\* top - text_height - 2 is below 0.
C24_LabelAnchor ==
    DrewAll =>
        \A k \in 1..Len(DrawnSurvivors) :
            LET px_left == DrawnOutlines[k].xy[1]
                px_top == DrawnOutlines[k].xy[2]
                text_x == DrawnLabels[k].xy[1]
                text_y == DrawnLabels[k].xy[2]
                above == px_top - drawEnv.text_height - 2
            IN  /\ text_x = px_left
                /\ text_y >= 0
                /\ above < 0 => text_y = 0
                /\ above >= 0 => text_y = above

\* one label with room above its box and one without, in one image
C24_Witness ==
    /\ DrewAll
    /\ \E j, k \in 1..Len(DrawnSurvivors) :
          /\ DrawnOutlines[j].xy[2] - drawEnv.text_height - 2 < 0
          /\ DrawnLabels[j].xy[2] = 0
          /\ DrawnOutlines[k].xy[2] - drawEnv.text_height - 2 > 0
          /\ DrawnLabels[k].xy[2] > 0


\* C30: the panel painted behind the label of every drawn detection lies
\* inside the image rows: its top edge, one row above the label's, is never
\* above row 0, the case of a label clamped to row 0 included.
C30_PanelInsideRows ==
    DrewAll =>
        \A k \in 1..Len(DrawnSurvivors) :
            /\ DrawnPanels[k].xy[2] = DrawnLabels[k].xy[2] - 1
            /\ DrawnPanels[k].xy[2] >= 0

-----------------------------------------------------------------------------
(* Properties of the grouping by tag *)

\* the tags of a list, each once, in the order of their first occurrence
RECURSIVE FirstSeen(_, _)
FirstSeen(dets, seen) ==
    IF dets = <<>> THEN seen
    ELSE LET tag == Head(dets).tag_name
             Is(t) == t = tag
         IN  FirstSeen(Tail(dets), IF SelectSeq(seen, Is) = <<>> THEN Append(seen, tag) ELSE seen)

WithTag(dets, tag) == LET Has(d) == d.tag_name = tag IN SelectSeq(dets, Has)

\* C25: grouping changes neither the result nor the filtered list, and the
\* mapping it builds has exactly the tags of the filtered list as keys, in the
\* order they are first seen, each with the detections of that tag in the
\* order of the filtered list.
C25_Grouping ==
    [][GroupDetectionsByTag =>
          LET survivors == SurvivorsAt(result.detections, tagGroups'.threshold)
              groups == tagGroups'.tag_groups
          IN  /\ result' = result
              /\ tagGroups'.filtered_detections = survivors
              /\ groups.keys = FirstSeen(survivors, <<>>)
              /\ DOMAIN groups.at = {survivors[i].tag_name : i \in 1..Len(survivors)}
              /\ \A tag \in DOMAIN groups.at : groups.at[tag] = WithTag(survivors, tag)]_vars

\* two different dogs with a cat between them, all at or above the threshold
C25_Witness ==
    /\ tagGroups.called
    /\ Len(tagGroups.filtered_detections) = 3
    /\ tagGroups.filtered_detections[2].tag_name = "cat"
    /\ tagGroups.tag_groups.keys = <<"dog", "cat">>
    /\ Len(tagGroups.tag_groups.at["dog"]) = 2
    /\ tagGroups.tag_groups.at["dog"][1] # tagGroups.tag_groups.at["dog"][2]

-----------------------------------------------------------------------------
(* Properties of the pairing in the Google normalizer *)

\* the detection the k-th entries of a prediction's three lists stand for
PairedDetection(rec) ==
    Detection(rec.name, IF IsNumber(rec.score) THEN rec.score.n ELSE 0, TupleBox(rec.box.coords))

PairedDetections(recs) == [i \in 1..Len(recs) |-> PairedDetection(recs[i])]

\* C26: the Google parser pairs the k-th display name of a prediction with its
\* k-th box and its k-th confidence: the detections returned are those of the
\* entries that yield one, each with its own name, box and confidence, entry
\* by entry and prediction by prediction, never more per prediction than the
\* shortest of its three lists has entries; an entry dropped for its box
\* shifts nothing.
C26_Pairing ==
    GoogleReturned =>
        /\ outcome.result.detections = PairedDetections(EmittingOfPredictions(GooglePredictionsIn))
        /\ Len(outcome.result.detections) <= Len(RecordsOfPredictions(GooglePredictionsIn))

-----------------------------------------------------------------------------
(* Properties of the service factory *)

IsService(value) == value # NoService /\ value # Missing

\* C27: whatever get_service calls and configuration changes came before, a
\* get_service call returns a service when is_service_available is true of
\* the name at the time of the call, and None when the name is unknown or not
\* configured at that time.
C27_ServiceWhenAvailable ==
    factoryLog.calls > 0 =>
        /\ factoryLog.last.available => IsService(factoryLog.last.returned)
        /\ ~factoryLog.last.available => factoryLog.last.returned = NoService

\* C28: _create_service runs at most once for each name, and every
\* get_service call returns what the first call for its name returned, the
\* same object or None.
C28_OneInstancePerName ==
    /\ \A service_name \in ServiceNames :
          /\ factoryLog.creations[service_name] <= 1
          /\ factoryLog.creations[service_name] = 1 <=> factoryLog.first[service_name] # Missing
          /\ factoryServices[service_name] = factoryLog.first[service_name]
    /\ factoryLog.calls > 0 =>
          factoryLog.last.returned = factoryLog.first[factoryLog.last.service_name]

\* a name asked for three times while its configuration came and went: the
\* third call returns the object the first call constructed
C28_Witness ==
    /\ factoryLog.calls = 3
    /\ factoryLog.changes > 0
    /\ factoryLog.creations[factoryLog.last.service_name] = 1
    /\ factoryLog.last.returned.id = 1
    /\ IsService(factoryLog.last.returned)
    /\ ~factoryLog.last.available

-----------------------------------------------------------------------------
(* Properties of the dashboard session *)

\* the outlines and labels painted on the annotated image shown
ShownOutlines == OpsOf(screen.annotated.painted, "rectangle")
ShownLabels == OpsOf(screen.annotated.painted, "text")

\* C29: whatever uploads, detection runs (successful or failing), slider moves
\* and service selections came before, what the results section shows is
\* consistent: the detections listed are exactly those drawn on the annotated
\* image shown, the list and the image come from the same detection run, and
\* the header names the service that produced them.
C29_ConsistentDisplay ==
    screen.results =>
        /\ screen.result_run = screen.annotated_run
        /\ Len(ShownOutlines) = Len(screen.listed)
        /\ \A k \in 1..Len(screen.listed) :
              /\ k <= Len(ShownLabels)
              /\ ShownLabels[k].text = LabelOf(screen.listed[k].tag_name)
              /\ ShownOutlines[k].xy[1]
                    = Pixel(screen.listed[k].bounding_box.left, screen.annotated.size[1])
              /\ ShownOutlines[k].xy[2]
                    = Pixel(screen.listed[k].bounding_box.top, screen.annotated.size[2])
        /\ screen.header # "" => screen.header = screen.produced_by

====
